---- MODULE Spec2Model ----
(***************************************************************************)
(* A model of python-svn2git's incremental push engine (push_all.py) and   *)
(* of its streamed subprocess monitor (processwrappers.py).                *)
(*                                                                         *)
(* Spec        one run of FullPush.push_branches: every branch is checked  *)
(*             out and pushed in adaptive batches; the outcome of each     *)
(*             `git push` is chosen by the environment.                    *)
(* FairSpec    Spec with weak fairness of the main thread's steps.         *)
(* StreamSpec  one call of long_running_process_result: the child, the two *)
(*             AsynchronousStreamReader threads and the polling loop, each *)
(*             step of each thread interleaved with the others'.           *)
(*                                                                         *)
(* The repository of the model is a first-parent chain of HistoryLength    *)
(* commits that every branch points to; commit ids are the positions in    *)
(* the chain (1 is the root).  The branches differ in how many of their    *)
(* commits the remote lacks, which makes the same (batch size, commit)     *)
(* constellation come up in several branches.  MaxCommits bounds the       *)
(* commits the remote lacks, all branches together.                        *)
(***************************************************************************)
EXTENDS Integers, Sequences, FiniteSets, TLC

\* ------------------------------------------------------------- bounds
MaxCommits == 10
MaxBatch == 8
MaxLines == 2
MaxMarks == 3
MaxRevision == 6
MaxChunkSize == 3

\* ---------------------------------------------------------- constants
RETURNCODE_OK == 0
RETURNCODE_ERROR == 1

DEFAULT_BRANCH_NAMES == {"main", "master", "trunk", "development"}

HistoryLength == MaxCommits

NO_CAUSE == "no cause given"

\* What `git branch --list` reports, in the order reported.
FindBranches == {<<"feature", "master">>}

\* Longer lists of branches, for the runs that are about their order.
FindMoreBranches == {<<"feature", "trunk", "master">>,
                     <<"hotfix", "master", "feature">>,
                     <<"main", "hotfix", "development", "feature">>,
                     <<"feature", "hotfix">>,
                     <<"trunk", "main">>,
                     <<"master">>}

\* What `git tag --list` reports.
GetTagNames == {<<"v1", "v2">>}

NoCommit == 0

\* The return codes `git push` ends with, and those of a git that can also
\* be ended by a signal (subprocess reports -9 for SIGKILL).
PushReturncodes == {RETURNCODE_OK, RETURNCODE_ERROR}

PushReturncodesWithSignals == PushReturncodes \cup {-9}

VARIABLES
    \* ---- FullPush: options and containers
    maximum_batch_size, \* options.maximum_batch_size (0: not incremental)
    fail_fast,          \* options.fail_fast
    names,              \* branches.names
    push_returncodes,   \* the return codes `git push` can end with in this run
    successful_pushes,  \* branches.successful_pushes (a list)
    failed_pushes,      \* branches.failed_pushes (name -> cause)
    skipped_pushes,     \* branches.skipped_pushes (name -> reason)
    failed_commits,     \* FullPush.failed_commits (a list)
    batch_pushes_failed,\* FullPush.batch_pushes_failed (the memo table)
    \* ---- control
    pc,                 \* where the main thread is
    branch_index,       \* position of push_branches' for loop in names
    highest_returncode, \* push_branches' local
    checked_out,        \* the branch of the working tree (at first the one listed last)
    branch_result,      \* what push_branches returned to run
    \* ---- push_incrementally's locals
    number_to_push,
    push_returncode,
    last_offset,
    batch_size,
    pushed_commits,
    failed_constellations,
    \* ---- history of the run (not program state)
    last_step,          \* the latest iteration of the batch loop
    push_calls,         \* invocations of `git push` for the current branch
    step_fails,         \* failed passes of the batch loop for the current branch
    fail_after_ok,      \* a pass of the current branch failed after one succeeded
    single_push_failed, \* the commits whose push on their own has failed, all branches
    count_error_logged, \* '... but N should have been pushed!' has been logged
    commits_counted,    \* commits found missing on the remote, all branches so far
    attempted,          \* the branches push_single_branch was called for, in order
    container_call,     \* the latest call on a container used on its own
    \* ---- FullPush.tags and push_tags
    tags_names,             \* tags.names
    tags_successful_pushes, \* tags.successful_pushes
    tags_failed_pushes,     \* tags.failed_pushes
    tags_skipped_pushes,    \* tags.skipped_pushes
    tag_index,              \* position of push_tags' for loop in tags.names
    tags_highest_returncode,\* push_tags' local highest_returncode
    tags_result,            \* what push_tags returned to run
    \* ---- run and main
    found,              \* what find_branches yielded
    original_branch,    \* run's local
    exit_status,        \* the status the script exits with (at "exited", "finished")
    exit_message,       \* what exit_with_error logged ("" when it was not called)
    report,             \* the item lines of the summaries logged
    \* ---- long_running_process_result: the child process
    child_written,      \* stream -> lines the child has written so far
    pipe,               \* stream -> lines written and not yet read
    pipe_closed,        \* stream -> the child has closed its end
    child_exited,       \* the child has ended
    child_returncode,   \* the exit status it ended with
    \* ---- the AsynchronousStreamReader threads
    reader_pc,          \* stream -> where the thread is in run()
    reader_line,        \* stream -> run()'s local `line`
    queue,              \* stream -> reader.queue
    handle_closed,      \* stream -> the parent has closed its end of the pipe
    \* ---- the main thread
    check,              \* the check argument
    mon_pc,             \* where long_running_process_result is
    collected,          \* stream -> collected_stdout / collected_stderr
    completed_process,  \* the CompletedProcess returned or raised with
    \* ---- history of the call (not program state)
    logged,             \* stream -> the messages handed to logging.log
    eof_result,         \* stream -> what the latest eof() returned
    eof_true_calls,     \* stream -> eof() calls that returned True (2: two or more)
    \* ---- svn2git: Migration, the module's ENV and the repository's config
    rebasebranch,       \* options.rebasebranch
    local_branches,     \* Migration.local_branches
    remote_branches,    \* Migration.remote_branches
    tags,               \* Migration.tags
    ENV,                \* the module's ENV, of which GIT_COMMITTER_DATE matters
    git_config,         \* key -> value of `git config --local`
    mig_pc,             \* where Migration is
    mig_error,          \* the error the method is ending with ("": none)
    saved_originals,    \* _fix_tags' local
    tag_queue,          \* the tags _fix_tags' for loop has yet to visit
    commit_data,        \* _fix_tags' local
    original_git_committer_date, \* _fix_tags' local
    called_with,        \* ENV, git_config and the sets at the call (history)
    \* ---- unique_commit_authors: LogExaminer._examine_log_chunks
    head_revision,      \* LogExaminer.head_revision
    chunk_size,         \* options.chunk_size
    current_base,       \* _examine_log_chunks' local
    current_end,        \* _examine_log_chunks' local
    exam_pc,            \* where _examine_log_chunks is
    requested           \* the revision ranges `svn log -r` was run for (history)

optionVars == <<maximum_batch_size, fail_fast, names, push_returncodes>>
containerVars == <<successful_pushes, failed_pushes, skipped_pushes,
                   failed_commits, batch_pushes_failed>>
controlVars == <<pc, branch_index, highest_returncode, checked_out,
                 branch_result>>
loopVars == <<number_to_push, push_returncode, last_offset, batch_size,
              pushed_commits, failed_constellations>>
historyVars == <<last_step, push_calls, step_fails, fail_after_ok,
                 single_push_failed, count_error_logged>>
budgetVars == <<commits_counted>>
tagVars == <<tags_names, tags_successful_pushes, tags_failed_pushes,
             tags_skipped_pushes, tag_index, tags_highest_returncode,
             tags_result>>
runVars == <<found, original_branch, exit_status, exit_message, report>>
pushVars == <<optionVars, containerVars, controlVars, loopVars, historyVars,
              budgetVars, attempted, container_call, tagVars, runVars>>
childVars == <<child_written, pipe, pipe_closed, child_exited,
               child_returncode>>
readerVars == <<reader_pc, reader_line, queue, handle_closed>>
monitorVars == <<check, mon_pc, collected, completed_process>>
streamHistoryVars == <<logged, eof_result, eof_true_calls>>
streamVars == <<childVars, readerVars, monitorVars, streamHistoryVars>>
migrationVars == <<rebasebranch, local_branches, remote_branches, tags, ENV,
                   git_config, mig_pc, mig_error, saved_originals, tag_queue,
                   commit_data, original_git_committer_date, called_with>>
examinerVars == <<head_revision, chunk_size, current_base, current_end,
                  exam_pc, requested>>
toolVars == <<migrationVars, examinerVars>>
vars == <<pushVars, streamVars, toolVars>>

\* ------------------------------------------------------------ helpers
Max(a, b) == IF a >= b THEN a ELSE b
Min(a, b) == IF a <= b THEN a ELSE b

Range(s) == {s[i] : i \in DOMAIN s}

\* dict.update(other): the keys of other win
DictUpdate(d, other) ==
    [k \in DOMAIN d \cup DOMAIN other |->
        IF k \in DOMAIN other THEN other[k] ELSE d[k]]

\* dict.fromkeys(keys, value)
DictFromKeys(keys, value) == [k \in keys |-> value]

EmptyDict == [k \in {} |-> 0]

\* BranchesDataContainer.__init__: default branches in front
IsDefaultBranch(name) == name \in DEFAULT_BRANCH_NAMES
IsRemainingBranch(name) == name \notin DEFAULT_BRANCH_NAMES
BranchesDataContainerRemainingFirst(names_sequence) ==
    SelectSeq(names_sequence, IsRemainingBranch)
        \o SelectSeq(names_sequence, IsDefaultBranch)

BranchesDataContainer(names_sequence) ==
    SelectSeq(names_sequence, IsDefaultBranch)
        \o SelectSeq(names_sequence, IsRemainingBranch)

get_commit_id_before_head_unskipped(offset) ==
    IF offset < 0 THEN NoCommit ELSE HistoryLength

\* get_commit_id_before_head: the commit `offset` first parents before HEAD
\* (NoCommit stands for the ValueError of a negative offset)
get_commit_id_before_head(offset) ==
    IF offset < 0 THEN NoCommit ELSE HistoryLength - offset

NoStep == [kind |-> "none", batch |-> 0, commit |-> NoCommit, offset |-> 0,
           pushed |-> 0, rc |-> RETURNCODE_OK]

NoNumbers == [total |-> 0, successful |-> 0, failed |-> 0, skipped |-> 0]

NoReport == [branches |-> <<>>, tags |-> <<>>, branch_numbers |-> NoNumbers,
             tag_numbers |-> NoNumbers, commit_logs |-> <<>>]

\* ---------------------------------------------------------------- Init
\* No call on a container used on its own yet.
NoCall == [method |-> "none"]

\* A call on a container, with what the container held when it was made.
Call(method, argument) ==
    [method |-> method, argument |-> argument,
     successful |-> successful_pushes, failed |-> failed_pushes,
     skipped |-> skipped_pushes]

FullPushInit ==
    /\ fail_fast \in BOOLEAN
    /\ container_call = NoCall
    /\ names = BranchesDataContainer(found)
    /\ tags_names \in GetTagNames
    /\ tags_successful_pushes = <<>>
    /\ tags_failed_pushes = EmptyDict
    /\ tags_skipped_pushes = EmptyDict
    /\ tag_index = 1
    /\ tags_highest_returncode = RETURNCODE_OK
    /\ tags_result = RETURNCODE_OK
    /\ original_branch = ""
    /\ exit_status = RETURNCODE_OK
    /\ exit_message = ""
    /\ report = NoReport
    /\ attempted = <<>>
    /\ successful_pushes = <<>>
    /\ failed_pushes = EmptyDict
    /\ skipped_pushes = EmptyDict
    /\ failed_commits = <<>>
    /\ batch_pushes_failed = EmptyDict
    /\ pc = "run"
    /\ branch_index = 1
    /\ highest_returncode = RETURNCODE_OK
    /\ checked_out = found[Len(found)]
    /\ branch_result = RETURNCODE_OK
    /\ number_to_push = 0
    /\ push_returncode = RETURNCODE_OK
    /\ last_offset = 0
    /\ batch_size = 0
    /\ pushed_commits = 0
    /\ failed_constellations = <<>>
    /\ last_step = NoStep
    /\ push_calls = 0
    /\ step_fails = 0
    /\ fail_after_ok = FALSE
    /\ single_push_failed = {}
    /\ count_error_logged = FALSE
    /\ commits_counted = 0

PushInit ==
    /\ maximum_batch_size \in 0..MaxBatch
    /\ found \in FindBranches
    /\ push_returncodes = PushReturncodes
    /\ FullPushInit

\* ------------------------------------------------------- DataContainer
skip_remaining_not_successful(successful, failed, skipped, reason) ==
    DictUpdate(skipped,
               DictFromKeys({item \in Range(names) :
                                item \notin Range(successful)}, reason))

\* DataContainer.skip_remaining: the new skipped_pushes
skip_remaining(successful, failed, skipped, reason) ==
    DictUpdate(skipped,
               DictFromKeys({item \in Range(names) :
                                /\ item \notin Range(successful)
                                /\ item \notin DOMAIN failed}, reason))

set_all_failed_no_cause(cause) ==
    /\ successful_pushes' = <<>>
    /\ skipped_pushes' = EmptyDict
    /\ failed_pushes' = DictFromKeys(Range(names), NO_CAUSE)

set_all_failed_keeping_skipped(cause) ==
    /\ successful_pushes' = <<>>
    /\ skipped_pushes' = skipped_pushes
    /\ failed_pushes' = DictFromKeys(Range(names), cause)

\* DataContainer.set_all_failed / set_all_successful
set_all_failed(cause) ==
    /\ successful_pushes' = <<>>
    /\ skipped_pushes' = EmptyDict
    /\ failed_pushes' = DictFromKeys(Range(names), cause)

set_all_successful ==
    /\ failed_pushes' = EmptyDict
    /\ skipped_pushes' = EmptyDict
    /\ successful_pushes' = names

\* ------------------------------------------------------------ FullPush
\* The locals of push_incrementally while it is not running.
NoLocals ==
    /\ last_offset' = 0
    /\ batch_size' = 0
    /\ pushed_commits' = 0
    /\ failed_constellations' = <<>>

checkout_nothing(branch) == checked_out

\* git.checkout(branch): the branch of the working tree afterwards
checkout(branch) == branch

NothingToPushNever(n) == FALSE

\* `if not number_to_push:`
NothingToPush(n) == n = 0

\* push_single_branch: check the branch out and count its missing commits
\* (n: the number of lines `git log <range>` prints); nothing to push ends
\* the call, anything else enters push_incrementally (its first lines).
PushSingleBranch(n) ==
    /\ pc = "push_branches"
    /\ maximum_batch_size # 0
    /\ branch_index <= Len(names)
    /\ checked_out' = checkout(names[branch_index])
    /\ number_to_push' = n
    /\ push_returncode' = RETURNCODE_OK
    /\ IF NothingToPush(n)
       THEN /\ successful_pushes' = Append(successful_pushes,
                                           names[branch_index])
            /\ NoLocals
            /\ pc' = "returned"
       ELSE /\ last_offset' = n
            /\ batch_size' = maximum_batch_size
            /\ pushed_commits' = 0
            /\ failed_constellations' = <<>>
            /\ pc' = "push_incrementally"
            /\ UNCHANGED successful_pushes
    /\ commits_counted' = commits_counted + n
    /\ attempted' = Append(attempted, names[branch_index])
    /\ UNCHANGED <<optionVars, container_call, failed_pushes, skipped_pushes, failed_commits,
                   batch_pushes_failed, branch_index, highest_returncode,
                   branch_result, historyVars, tagVars, runVars>>

ClampedBatchSizeMissing == batch_size

ClampedBatchSizeToTotal ==
    IF batch_size > number_to_push THEN number_to_push ELSE batch_size

\* One pass of push_incrementally's while loop; rc is what `git push`
\* returns when it is invoked.
ClampedBatchSize == IF batch_size > last_offset THEN last_offset ELSE batch_size

TipCommit == get_commit_id_before_head(last_offset - ClampedBatchSize)

FailedBeforeForgotten == FALSE

FailedBeforeUnclamped ==
    /\ batch_size <= last_offset
    /\ <<batch_size, TipCommit>> \in DOMAIN batch_pushes_failed

FailedBefore == <<ClampedBatchSize, TipCommit>> \in DOMAIN batch_pushes_failed

\* (variants of the definitions below, each with one slip in it, are used to
\* see that the properties at the end of the module depend on them)
NewBatchSizeUncapped(size, offset) ==
    LET doubled == size * 2
        fitted == IF doubled > offset THEN offset ELSE doubled
    IN  IF fitted > size THEN fitted ELSE size

NewBatchSizeKept(size, offset) == size

NewBatchSizeByOne(size, offset) ==
    LET larger == size + 1
        capped == IF larger > maximum_batch_size
                  THEN maximum_batch_size ELSE larger
        fitted == IF capped > offset THEN offset ELSE capped
    IN  IF fitted > size THEN fitted ELSE size

\* Double the batch size, up to the maximum and to what is left.
NewBatchSize(size, offset) ==
    LET doubled == size * 2
        capped == IF doubled > maximum_batch_size
                  THEN maximum_batch_size ELSE doubled
        fitted == IF capped > offset THEN offset ELSE capped
    IN  IF fitted > size THEN fitted ELSE size

HalvedBatchSizeMinusOne(size) == size - 1

HalvedBatchSizeSame(size) == size

HalvedBatchSize(size) == size \div 2

\* `if push_returncode:` and, inside it, `if batch_size > 1:`
Failed(returncode) == returncode # 0

CanReduceAtOne(size) == size >= 1

CanReduce(size) == size > 1

AppendAgain(list, item) == Append(list, item)

\* `if commit_id not in self.failed_commits: ...append(commit_id)`
AppendNew(list, item) ==
    IF item \in Range(list) THEN list ELSE Append(list, item)

FailureCauseAtTip(commit, remaining) ==
    [commit |-> HistoryLength, remaining |-> remaining]

\* 'at %s, %s commits remain' % (commit_id, remaining_commits)
FailureCause(commit, remaining) == [commit |-> commit, remaining |-> remaining]

ExitsOnErrorAlways(exit_on_error, returncode) == returncode # 0

\* gitwrapper.get_command_result: check=exit_on_error makes subprocess.run
\* raise the CalledProcessError of a non-zero return code, which ends the
\* script by exit_with_error; push_incrementally calls
\* git.push(..., exit_on_error=False).
ExitsOnError(exit_on_error, returncode) == exit_on_error /\ returncode # 0

confirmed_failures_last_only(table, constellations, commit_id) ==
    IF constellations = <<>> THEN table
    ELSE DictUpdate(table,
                    DictFromKeys({constellations[Len(constellations)]},
                                 commit_id))

\* `self.batch_pushes_failed.update(
\*      dict.fromkeys(failed_constellations, commit_id))`
confirmed_failures(table, constellations, commit_id) ==
    DictUpdate(table, DictFromKeys(Range(constellations), commit_id))

EnforcedBatchSizeKept(known, size) == size

\* `batch_size = 1` where the same constellation failed before
EnforcedBatchSize(known, size) == IF known THEN 1 ELSE size

PushIteration(rc) ==
    /\ pc = "push_incrementally"
    /\ last_offset # 0
    /\ IF ~FailedBefore /\ ExitsOnError(FALSE, rc)
       THEN
       /\ pc' = "exited"
       /\ exit_status' = RETURNCODE_ERROR
       /\ exit_message' = "[Command failed] git push"
       /\ UNCHANGED <<containerVars, loopVars, historyVars>>
       ELSE
       /\ UNCHANGED <<exit_status, exit_message>>
       /\ LET branch_name == names[branch_index]
              known == FailedBefore
              size == EnforcedBatchSize(known, ClampedBatchSize)
              commit_id == IF known
                           THEN batch_pushes_failed[<<ClampedBatchSize, TipCommit>>]
                           ELSE TipCommit
              returncode == IF known THEN RETURNCODE_ERROR ELSE rc
          IN  /\ push_returncode' = returncode
              /\ last_step' = [kind |-> IF known THEN "memo" ELSE "push",
                               batch |-> ClampedBatchSize, commit |-> TipCommit,
                               offset |-> last_offset, pushed |-> pushed_commits,
                               rc |-> returncode]
              /\ push_calls' = IF known THEN push_calls ELSE push_calls + 1
              /\ step_fails' = IF Failed(returncode) THEN step_fails + 1
                               ELSE step_fails
              /\ fail_after_ok' = (fail_after_ok
                                   \/ (Failed(returncode) /\ pushed_commits > 0))
              /\ single_push_failed' =
                    IF ~known /\ Failed(returncode) /\ size = 1
                    THEN single_push_failed \cup {commit_id}
                    ELSE single_push_failed
              /\ UNCHANGED count_error_logged
              /\ IF Failed(returncode)
                 THEN IF CanReduce(size)
                      THEN /\ failed_constellations' =
                                 Append(failed_constellations, <<size, commit_id>>)
                           /\ batch_size' = HalvedBatchSize(size)
                           /\ UNCHANGED <<batch_pushes_failed, failed_pushes,
                                          failed_commits, last_offset,
                                          pushed_commits, pc>>
                      ELSE /\ batch_pushes_failed' =
                                 confirmed_failures(batch_pushes_failed,
                                                    failed_constellations,
                                                    commit_id)
                           /\ failed_pushes' =
                                 DictUpdate(failed_pushes,
                                            DictFromKeys({branch_name},
                                                 FailureCause(commit_id,
                                                     number_to_push - pushed_commits)))
                           /\ failed_commits' = AppendNew(failed_commits, commit_id)
                           /\ batch_size' = size
                           /\ pc' = "returned"
                           /\ UNCHANGED <<failed_constellations, last_offset,
                                          pushed_commits>>
                 ELSE /\ last_offset' = last_offset - size
                      /\ pushed_commits' = pushed_commits + size
                      /\ batch_size' = NewBatchSize(size, last_offset - size)
                      /\ UNCHANGED <<batch_pushes_failed, failed_pushes,
                                     failed_commits, failed_constellations, pc>>
    /\ UNCHANGED <<optionVars, container_call, successful_pushes, skipped_pushes, branch_index,
                   highest_returncode, checked_out, branch_result,
                   number_to_push, budgetVars, attempted, tagVars, found,
                   original_branch, report>>

\* push_incrementally after its loop: the branch is through.
PushIncrementallyReturn ==
    /\ pc = "push_incrementally"
    /\ last_offset = 0
    /\ count_error_logged' =
          (count_error_logged \/ pushed_commits # number_to_push)
    /\ successful_pushes' = Append(successful_pushes, names[branch_index])
    /\ pc' = "returned"
    /\ UNCHANGED <<optionVars, container_call, failed_pushes, skipped_pushes, failed_commits,
                   batch_pushes_failed, branch_index, highest_returncode,
                   checked_out, branch_result, loopVars, last_step, push_calls,
                   step_fails, fail_after_ok, single_push_failed,
                   budgetVars, attempted, tagVars, runVars>>

StopsAtFailureAlways(returncode) == returncode # 0

StopsAtFailureNever(returncode) == FALSE

\* `if push_returncode and self.options.fail_fast:`
StopsAtFailure(returncode) == returncode # 0 /\ fail_fast

\* push_branches' for loop after push_single_branch returned.
PushBranchesNext ==
    /\ pc = "returned"
    /\ IF StopsAtFailure(push_returncode)
       THEN /\ skipped_pushes' = skip_remaining(successful_pushes,
                                    failed_pushes, skipped_pushes,
                                    "previous_errors")
            /\ branch_result' = push_returncode
            /\ pc' = "done"
            /\ UNCHANGED <<highest_returncode, branch_index>>
       ELSE /\ highest_returncode' = Max(push_returncode, highest_returncode)
            /\ IF branch_index < Len(names)
               THEN /\ branch_index' = branch_index + 1
                    /\ pc' = "push_branches"
                    /\ UNCHANGED branch_result
               ELSE /\ branch_result' = Max(push_returncode, highest_returncode)
                    /\ pc' = "done"
                    /\ UNCHANGED branch_index
            /\ UNCHANGED skipped_pushes
    /\ number_to_push' = 0
    /\ push_returncode' = RETURNCODE_OK
    /\ NoLocals
    /\ last_step' = NoStep
    /\ push_calls' = 0
    /\ step_fails' = 0
    /\ fail_after_ok' = FALSE
    /\ UNCHANGED <<single_push_failed, count_error_logged>>
    /\ UNCHANGED <<optionVars, container_call, successful_pushes, failed_pushes, failed_commits,
                   batch_pushes_failed, checked_out, budgetVars, attempted,
                   tagVars, runVars>>

\* push_branches without a maximum batch size: one push of all branches.
PushAllBranches(rc) ==
    /\ pc = "push_branches"
    /\ maximum_batch_size = 0
    /\ IF rc # 0 THEN set_all_failed("global push failed")
                 ELSE set_all_successful
    /\ branch_result' = rc
    /\ push_calls' = push_calls + 1
    /\ pc' = "done"
    /\ UNCHANGED <<optionVars, container_call, failed_commits, batch_pushes_failed,
                   branch_index, highest_returncode, checked_out, loopVars,
                   last_step, step_fails, fail_after_ok, single_push_failed,
                   count_error_logged, budgetVars,
                   attempted, tagVars, runVars>>

\* ------------------------------------------------------------ push_tags
\* The cause push_tags records for a tag: f'returncode: {push_returncode}'
TagFailureCause(returncode) == [returncode |-> returncode]

\* push_tags with a maximum batch size: one pass of its for loop
PushTag(rc) ==
    /\ pc = "push_tags"
    /\ maximum_batch_size # 0
    /\ tag_index <= Len(tags_names)
    /\ LET current_tag == tags_names[tag_index]
       IN  IF rc # 0
           THEN /\ tags_failed_pushes' =
                      DictUpdate(tags_failed_pushes,
                                 DictFromKeys({current_tag}, TagFailureCause(rc)))
                /\ UNCHANGED tags_successful_pushes
           ELSE /\ tags_successful_pushes' =
                      Append(tags_successful_pushes, current_tag)
                /\ UNCHANGED tags_failed_pushes
    /\ tags_highest_returncode' = Max(rc, tags_highest_returncode)
    /\ tag_index' = tag_index + 1
    /\ UNCHANGED <<optionVars, container_call, containerVars, controlVars, loopVars,
                   historyVars, budgetVars, attempted, tags_names,
                   tags_skipped_pushes, tags_result, runVars>>

\* push_tags with a maximum batch size: `return highest_returncode`
PushTagsReturn ==
    /\ pc = "push_tags"
    /\ maximum_batch_size # 0
    /\ tag_index > Len(tags_names)
    /\ tags_result' = tags_highest_returncode
    /\ pc' = "output"
    /\ UNCHANGED <<optionVars, container_call, containerVars, branch_index, highest_returncode,
                   checked_out, branch_result, loopVars, historyVars,
                   budgetVars, attempted, tags_names, tags_successful_pushes,
                   tags_failed_pushes, tags_skipped_pushes, tag_index,
                   tags_highest_returncode, runVars>>

\* push_tags without a maximum batch size: one push of all tags
PushAllTags(rc) ==
    /\ pc = "push_tags"
    /\ maximum_batch_size = 0
    /\ IF rc # 0
       THEN /\ tags_successful_pushes' = <<>>
            /\ tags_skipped_pushes' = EmptyDict
            /\ tags_failed_pushes' = DictFromKeys(Range(tags_names), NO_CAUSE)
       ELSE /\ tags_failed_pushes' = EmptyDict
            /\ tags_skipped_pushes' = EmptyDict
            /\ tags_successful_pushes' = tags_names
    /\ tags_result' = rc
    /\ pc' = "output"
    /\ UNCHANGED <<optionVars, container_call, containerVars, branch_index, highest_returncode,
                   checked_out, branch_result, loopVars, historyVars,
                   budgetVars, attempted, tags_names, tag_index,
                   tags_highest_returncode, runVars>>

\* ------------------------------------------------------------------ run
\* DataContainer.show_statistics: the lines it logs for the items
show_statistics(item_names, successful, failed, skipped) ==
    [i \in DOMAIN item_names |->
        LET item == item_names[i]
        IN  IF item \in DOMAIN failed
            THEN [item |-> item, outcome |-> "failed"]
            ELSE IF item \in Range(successful)
            THEN [item |-> item, outcome |-> "successful"]
            ELSE [item |-> item, outcome |-> "skipped"]]

\* DataContainer.show_statistics: the numbers it logs
statistics_numbers(item_names, successful, failed) ==
    LET number_total == Len(item_names)
        number_successful == Len(successful)
        number_failed == Cardinality(DOMAIN failed)
    IN  [total |-> number_total, successful |-> number_successful,
         failed |-> number_failed,
         skipped |-> number_total - number_successful - number_failed]

\* get_commit_log: the log entry of a commit, which starts with its id
get_commit_log(commit_id) == [commit |-> commit_id]

\* FullPush.failed_commit_logs
failed_commit_logs ==
    [i \in DOMAIN failed_commits |-> get_commit_log(failed_commits[i])]

\* The outcomes get_remote_url and the credential.helper check can have.
SetupOutcomes == {"ok", "error"}

\* run up to the call of push_branches: the remote URL and the check for
\* the credential helper, either of which may end the script, and the branch
\* that is checked out
RunStart(setup) ==
    /\ pc = "run"
    /\ IF setup = "error"
       THEN /\ pc' = "exited"
            /\ exit_status' = RETURNCODE_ERROR
            /\ exit_message' = "No remote URL or no credential.helper"
            /\ UNCHANGED original_branch
       ELSE /\ original_branch' = checked_out
            /\ pc' = "push_branches"
            /\ UNCHANGED <<exit_status, exit_message>>
    /\ UNCHANGED <<optionVars, container_call, containerVars, branch_index, highest_returncode,
                   checked_out, branch_result, loopVars, historyVars,
                   budgetVars, attempted, tagVars, found, report>>

\* run after push_branches returned: back to the original branch, then the
\* two ways a branch_result other than 0 ends the script
RunAfterBranches ==
    /\ pc = "done"
    /\ checked_out' = checkout(original_branch)
    /\ IF branch_result # 0 /\ successful_pushes = <<>>
       THEN /\ pc' = "exited"
            /\ exit_status' = RETURNCODE_ERROR
            /\ exit_message' = "All branch pushes failed!"
            /\ UNCHANGED report
       ELSE IF branch_result # 0 /\ fail_fast
       THEN /\ report' = [report EXCEPT
                              !.commit_logs = failed_commit_logs,
                              !.branch_numbers =
                                  statistics_numbers(names, successful_pushes,
                                                     failed_pushes),
                              !.branches =
                                  show_statistics(names, successful_pushes,
                                                  failed_pushes, skipped_pushes)]
            /\ pc' = "exited"
            /\ exit_status' = RETURNCODE_ERROR
            /\ exit_message' = "Run this script again without the --fail-fast option"
       ELSE /\ pc' = "push_tags"
            /\ UNCHANGED <<exit_status, exit_message, report>>
    /\ UNCHANGED <<optionVars, container_call, containerVars, branch_index, highest_returncode,
                   branch_result, loopVars, historyVars, budgetVars, attempted,
                   tagVars, found, original_branch>>

\* run after push_tags returned: the summaries, `return tags_result`, and
\* main's and the script's `sys.exit(main(...))`
RunReturn ==
    /\ pc = "output"
    /\ report' = [commit_logs |-> failed_commit_logs,
                  branch_numbers |-> statistics_numbers(names, successful_pushes,
                                                        failed_pushes),
                  branches |-> show_statistics(names, successful_pushes,
                                               failed_pushes, skipped_pushes),
                  tag_numbers |-> statistics_numbers(tags_names,
                                                     tags_successful_pushes,
                                                     tags_failed_pushes),
                  tags |-> show_statistics(tags_names, tags_successful_pushes,
                                           tags_failed_pushes,
                                           tags_skipped_pushes)]
    /\ exit_status' = tags_result
    /\ pc' = "finished"
    /\ UNCHANGED <<optionVars, container_call, containerVars, branch_index, highest_returncode,
                   checked_out, branch_result, loopVars, historyVars,
                   budgetVars, attempted, tagVars, found, original_branch,
                   exit_message>>

\* ===================================================== processwrappers
Streams == {"stdout", "stderr"}

\* The i-th line the child writes to a stream, as bytes: a letter for the
\* stream (111 'o', 101 'e'), the digit i, a blank at the end of every odd
\* line, and the newline.
LineBytes(s, i) ==
    <<IF s = "stdout" THEN 111 ELSE 101, 48 + i>>
        \o (IF i % 2 = 1 THEN <<32>> ELSE <<>>) \o <<10>>

\* bytes.decode('UTF-8') of ASCII bytes
Chr(byte) ==
    CASE byte = 10 -> "\n"
      [] byte = 32 -> " "
      [] byte = 9 -> "\t"
      [] byte = 13 -> "\r"
      [] byte = 101 -> "e"
      [] byte = 111 -> "o"
      [] byte \in 48..57 -> <<"0", "1", "2", "3", "4", "5", "6", "7", "8",
                              "9">>[byte - 47]
      [] OTHER -> "?"

Decode(bytes) == [i \in DOMAIN bytes |-> Chr(bytes[i])]

\* str.rstrip(): without the whitespace at the end
Whitespace == {" ", "\n", "\t", "\r"}

RECURSIVE Rstrip(_)
Rstrip(text) ==
    IF text # <<>> /\ text[Len(text)] \in Whitespace
    THEN Rstrip(SubSeq(text, 1, Len(text) - 1))
    ELSE text

LogMessageUnstripped(line) == Decode(line)

\* What the loop hands to logging.log for a line
LogMessage(line) == Rstrip(Decode(line))

\* b''.join(list)
RECURSIVE Join(_)
Join(list) == IF list = <<>> THEN <<>> ELSE Head(list) \o Join(Tail(list))

NoProcess == [returncode |-> 0, stdout |-> <<>>, stderr |-> <<>>]

\* Both readers are constructed and started by get_streams_and_process.
StreamInit ==
    /\ child_written = [s \in Streams |-> 0]
    /\ pipe = [s \in Streams |-> <<>>]
    /\ pipe_closed = [s \in Streams |-> FALSE]
    /\ child_exited = FALSE
    /\ child_returncode = 0
    /\ reader_pc = [s \in Streams |-> "readline"]
    /\ reader_line = [s \in Streams |-> <<>>]
    /\ queue = [s \in Streams |-> <<>>]
    /\ handle_closed = [s \in Streams |-> FALSE]
    /\ check \in BOOLEAN
    /\ mon_pc = <<"eof_alive", "stdout">>
    /\ collected = [s \in Streams |-> <<>>]
    /\ completed_process = NoProcess
    /\ logged = [s \in Streams |-> <<>>]
    /\ eof_result = [s \in Streams |-> "none"]
    /\ eof_true_calls = [s \in Streams |-> 0]

\* ---- the child process
ChildWrite(s) ==
    /\ ~pipe_closed[s]
    /\ child_written[s] < MaxLines
    /\ child_written' = [child_written EXCEPT ![s] = @ + 1]
    /\ pipe' = [pipe EXCEPT ![s] = Append(@, LineBytes(s, child_written[s] + 1))]
    /\ UNCHANGED <<pipe_closed, child_exited, child_returncode, readerVars,
                   monitorVars, streamHistoryVars>>

ChildClose(s) ==
    /\ ~pipe_closed[s]
    /\ pipe_closed' = [pipe_closed EXCEPT ![s] = TRUE]
    /\ UNCHANGED <<child_written, pipe, child_exited, child_returncode,
                   readerVars, monitorVars, streamHistoryVars>>

ChildExit(rc) ==
    /\ ~child_exited
    /\ child_exited' = TRUE
    /\ child_returncode' = rc
    /\ pipe_closed' = [s \in Streams |-> TRUE]
    /\ UNCHANGED <<child_written, pipe, readerVars, monitorVars,
                   streamHistoryVars>>

\* ---- AsynchronousStreamReader
\* run(): line = self._stream.readline(), which waits for a line or the end
ReaderReadline(s) ==
    /\ reader_pc[s] = "readline"
    /\ pipe[s] # <<>> \/ pipe_closed[s]
    /\ IF pipe[s] # <<>>
       THEN /\ reader_line' = [reader_line EXCEPT ![s] = Head(pipe[s])]
            /\ pipe' = [pipe EXCEPT ![s] = Tail(@)]
            /\ reader_pc' = [reader_pc EXCEPT ![s] = "put"]
       ELSE /\ reader_line' = [reader_line EXCEPT ![s] = <<>>]
            /\ reader_pc' = [reader_pc EXCEPT ![s] = "break"]
            /\ UNCHANGED pipe
    /\ UNCHANGED <<child_written, pipe_closed, child_exited, child_returncode,
                   queue, handle_closed, monitorVars, streamHistoryVars>>

\* run(): self.queue.put(line)
ReaderPut(s) ==
    /\ reader_pc[s] = "put"
    /\ queue' = [queue EXCEPT ![s] = Append(@, reader_line[s])]
    /\ reader_pc' = [reader_pc EXCEPT ![s] = "readline"]
    /\ UNCHANGED <<childVars, reader_line, handle_closed, monitorVars,
                   streamHistoryVars>>

\* run() returns after the break: the thread is no longer alive
ReaderExit(s) ==
    /\ reader_pc[s] = "break"
    /\ reader_pc' = [reader_pc EXCEPT ![s] = "stopped"]
    /\ UNCHANGED <<childVars, reader_line, queue, handle_closed, monitorVars,
                   streamHistoryVars>>

is_alive_ignored(s) == FALSE

is_alive_in_readline(s) == reader_pc[s] = "readline"

\* Thread.is_alive() and Queue.empty(), as eof() and readlines() call them
is_alive(s) == reader_pc[s] # "stopped"

queue_empty_ignored(s) == TRUE

queue_empty_never(s) == FALSE

queue_empty(s) == queue[s] = <<>>

\* ---- long_running_process_result
LoopBodySkipped == <<"join", "stdout">>

\* The first statement of the while loop's body.
LoopBody == <<"readlines", "stderr">>

\* eof(): `not self.is_alive()`, the left operand of the and
MonitorEofAlive(s) ==
    /\ mon_pc = <<"eof_alive", s>>
    /\ IF is_alive(s)
       THEN /\ eof_result' = [eof_result EXCEPT ![s] = "False"]
            /\ mon_pc' = LoopBody
       ELSE /\ mon_pc' = <<"eof_empty", s>>
            /\ UNCHANGED eof_result
    /\ UNCHANGED <<childVars, readerVars, check, collected, completed_process,
                   logged, eof_true_calls>>

\* eof(): `self.queue.empty()`, the right operand; the while condition
\* goes on to stderr's eof() or leaves the loop when this one is True
MonitorEofEmpty(s) ==
    /\ mon_pc = <<"eof_empty", s>>
    /\ IF queue_empty(s)
       THEN /\ eof_result' = [eof_result EXCEPT ![s] = "True"]
            /\ eof_true_calls' = [eof_true_calls EXCEPT ![s] = Min(@ + 1, 2)]
            /\ mon_pc' = IF s = "stdout" THEN <<"eof_alive", "stderr">>
                         ELSE <<"join", "stdout">>
       ELSE /\ eof_result' = [eof_result EXCEPT ![s] = "False"]
            /\ mon_pc' = LoopBody
            /\ UNCHANGED eof_true_calls
    /\ UNCHANGED <<childVars, readerVars, check, collected, completed_process,
                   logged>>

\* readlines(): `while not self.queue.empty()`; after stdout's lines the
\* loop sleeps and evaluates its condition again
MonitorReadlines(s) ==
    /\ mon_pc = <<"readlines", s>>
    /\ mon_pc' = IF ~queue_empty(s) THEN <<"get", s>>
                 ELSE IF s = "stderr" THEN <<"readlines", "stdout">>
                 ELSE <<"eof_alive", "stdout">>
    /\ UNCHANGED <<childVars, readerVars, check, collected, completed_process,
                   streamHistoryVars>>

\* readlines(): `yield self.queue.get()`, and the loop's body for the line
MonitorGet(s) ==
    /\ mon_pc = <<"get", s>>
    /\ queue[s] # <<>>
    /\ queue' = [queue EXCEPT ![s] = Tail(@)]
    /\ collected' = [collected EXCEPT ![s] = Append(@, Head(queue[s]))]
    /\ logged' = [logged EXCEPT ![s] = Append(@, LogMessage(Head(queue[s])))]
    /\ mon_pc' = <<"readlines", s>>
    /\ UNCHANGED <<childVars, reader_pc, reader_line, handle_closed, check,
                   completed_process, eof_result, eof_true_calls>>

\* process_info.stdout.join(), then process_info.stderr.join()
MonitorJoin(s) ==
    /\ mon_pc = <<"join", s>>
    /\ ~is_alive(s)
    /\ mon_pc' = IF s = "stdout" THEN <<"join", "stderr">>
                 ELSE <<"close", "stdout">>
    /\ UNCHANGED <<childVars, readerVars, check, collected, completed_process,
                   streamHistoryVars>>

\* process_info.process.stdout.close(), then ...stderr.close()
MonitorClose(s) ==
    /\ mon_pc = <<"close", s>>
    /\ handle_closed' = [handle_closed EXCEPT ![s] = TRUE]
    /\ mon_pc' = IF s = "stdout" THEN <<"close", "stderr">>
                 ELSE <<"wait", "process">>
    /\ UNCHANGED <<childVars, reader_pc, reader_line, queue, check, collected,
                   completed_process, streamHistoryVars>>

CheckFailsUnasked(strict, returncode) == returncode # 0

\* `if check: completed_process.check_returncode()`, which raises a
\* CalledProcessError when the return code is not zero
CheckFails(strict, returncode) == strict /\ returncode # 0

\* process.wait(), the CompletedProcess and check_returncode(); the
\* CalledProcessError is made of the CompletedProcess's returncode, stdout
\* and stderr
MonitorWait ==
    /\ mon_pc = <<"wait", "process">>
    /\ child_exited
    /\ completed_process' = [returncode |-> child_returncode,
                             stdout |-> Join(collected["stdout"]),
                             stderr |-> Join(collected["stderr"])]
    /\ mon_pc' = IF CheckFails(check, child_returncode)
                 THEN <<"raised", "process">> ELSE <<"returned", "process">>
    /\ UNCHANGED <<childVars, readerVars, check, collected, streamHistoryVars>>

\* The statements of the polling loop (lines 253 to 266).
InPollingLoop == mon_pc[1] \in {"eof_alive", "eof_empty", "readlines", "get"}

\* An exception raised in the main thread while it is in the polling loop
\* (a KeyboardInterrupt during time.sleep, say): nothing in the function
\* catches it, so it leaves the function from where it is.
MonitorInterrupt ==
    /\ InPollingLoop
    /\ mon_pc' = <<"interrupted", "process">>
    /\ UNCHANGED <<childVars, readerVars, check, collected, completed_process,
                   streamHistoryVars>>

\* The exit status of the child.
ExitCodes == {0, 1, 2}

\* ------------------------------------------- DataContainer and its users
\* The names, causes and reasons of a container that is used on its own.
TrackedNames == {<<"master", "feature">>}
Causes == {"at 7, 2 commits remain", "returncode: 1"}
Reasons == {"previous_errors"}

\* `successful_pushes.append(name)`, as push_incrementally,
\* push_single_branch and push_tags mark an item successful
MarkSuccessful(name) ==
    /\ pc = "tracker"
    /\ Len(successful_pushes) < MaxMarks
    /\ successful_pushes' = Append(successful_pushes, name)
    /\ container_call' = Call("append", name)
    /\ UNCHANGED <<failed_pushes, skipped_pushes>>

\* `failed_pushes[name] = cause`, as push_incrementally and push_tags mark
\* an item failed
MarkFailed(name, cause) ==
    /\ pc = "tracker"
    /\ failed_pushes' = DictUpdate(failed_pushes, DictFromKeys({name}, cause))
    /\ container_call' = Call("setitem", <<name, cause>>)
    /\ UNCHANGED <<successful_pushes, skipped_pushes>>

\* skip_remaining(reason)
SkipRemaining(reason) ==
    /\ pc = "tracker"
    /\ skipped_pushes' = skip_remaining(successful_pushes, failed_pushes,
                                        skipped_pushes, reason)
    /\ container_call' = Call("skip_remaining", reason)
    /\ UNCHANGED <<successful_pushes, failed_pushes>>

\* set_all_failed(cause) and set_all_successful()
SetAllFailed(cause) ==
    /\ pc = "tracker"
    /\ set_all_failed(cause)
    /\ container_call' = Call("set_all_failed", cause)

SetAllSuccessful ==
    /\ pc = "tracker"
    /\ set_all_successful
    /\ container_call' = Call("set_all_successful", <<>>)

\* What stays as it is while a container is used on its own.
TrackerFrame ==
    UNCHANGED <<optionVars, failed_commits, batch_pushes_failed, controlVars,
                loopVars, historyVars, budgetVars, attempted, tagVars, runVars,
                streamVars, toolVars>>

\* ============================================================= svn2git
CI_USER_NAME == "user.name"
CI_USER_EMAIL == "user.email"
ENV_GIT_COMMITTER_DATE == "GIT_COMMITTER_DATE"

\* dict.get(key) of a missing key
None == "None"

\* The remote branches git-svn makes of the tags, as sorted() orders them.
TagBranches == <<"svn/tags/v1", "svn/tags/v2">>

\* What `git log -1 --pretty=format:...` prints for a tag's branch.
CommitDataOf ==
    ("svn/tags/v1" :> [comment |-> "release 1", date |-> "2001-01-01",
                       author_name |-> "alice",
                       author_email |-> "alice@example.org"])
    @@ ("svn/tags/v2" :> [comment |-> "release 2", date |-> "2002-02-02",
                          author_name |-> "bob",
                          author_email |-> "bob@example.org"])

NoCommitData == [comment |-> "", date |-> "", author_name |-> "",
                 author_email |-> ""]

\* The environments and configurations a migration may start with.
Environments == {EmptyDict, ENV_GIT_COMMITTER_DATE :> "1999-09-09"}

Configurations ==
    {DictUpdate(name, email) :
        name \in {EmptyDict, CI_USER_NAME :> "committer"},
        email \in {EmptyDict, CI_USER_EMAIL :> "committer@example.org"}}

\* Branch names are sequences of characters, for `in` looks inside them.
Dev == <<"d", "e", "v">>

LocalBranchNames == {Dev, Dev \o <<"2">>, <<"x">>}

RemoteBranchNames == {<<"s", "/">> \o Dev, <<"o", "/">> \o Dev,
                      <<"s", "/">> \o Dev \o <<"2">>, <<"s", "/", "x">>}

RebasebranchOptions == {Dev, Dev \o <<"2">>, <<"x">>, <<"y">>}

\* sorted(self.tags)
Sorted(tag_set) == SelectSeq(TagBranches, LAMBDA tag : tag \in tag_set)

\* dict.get(key) and `del dict[key]`
DictGet(d, key) == IF key \in DOMAIN d THEN d[key] ELSE None

DictDelete(d, key) == [k \in DOMAIN d \ {key} |-> d[k]]

\* GitConfigurator.get(key, exit_on_error=False).strip(): the value, or
\* nothing where the key is not set (git config --get then prints nothing)
ConfigGet(config, key) == IF key \in DOMAIN config THEN config[key] ELSE ""

\* GitConfigurator.__call__(key, value)
ConfigSet(config, key, value) == DictUpdate(config, key :> value)

\* GitConfigurator.unset(key); git config --unset ends with status 5 where
\* the key is not set, which get_command_output turns into exit_with_error
ConfigUnsetFails(config, key) == key \notin DOMAIN config

committer_date_kept(env, original) == env

\* `if original_git_committer_date is None: del ENV[...]` / else put it back
committer_date_restored(env, original) ==
    IF original = None
    THEN DictDelete(env, ENV_GIT_COMMITTER_DATE)
    ELSE DictUpdate(env, ENV_GIT_COMMITTER_DATE :> original)

NoFixTagsLocals ==
    /\ saved_originals = EmptyDict
    /\ tag_queue = <<>>
    /\ commit_data = NoCommitData
    /\ original_git_committer_date = None

\* _fix_tags up to its for loop
FixTagsStart ==
    /\ mig_pc = "fix_tags"
    /\ saved_originals' = [key \in {CI_USER_NAME, CI_USER_EMAIL} |->
                              ConfigGet(git_config, key)]
    /\ tag_queue' = Sorted(tags)
    /\ mig_pc' = IF tags = {} THEN "finally" ELSE "commit_data"
    /\ UNCHANGED <<rebasebranch, local_branches, remote_branches, tags, ENV,
                   git_config, mig_error, commit_data,
                   original_git_committer_date, called_with>>

\* A command of the try block has failed: get_command_output ends the script
\* by exit_with_error, and the exception goes through the finally clause.
CommandFailed ==
    /\ mig_error' = "[Command failed]"
    /\ mig_pc' = "finally"

\* the four `git log -1` of a tag
GetCommitData(ok) ==
    /\ mig_pc = "commit_data"
    /\ IF ok
       THEN /\ commit_data' = CommitDataOf[Head(tag_queue)]
            /\ mig_pc' = "config_name"
            /\ UNCHANGED mig_error
       ELSE CommandFailed /\ UNCHANGED commit_data
    /\ UNCHANGED <<rebasebranch, local_branches, remote_branches, tags, ENV,
                   git_config, saved_originals, tag_queue,
                   original_git_committer_date, called_with>>

\* self.git_config(CI_USER_NAME, ...) and self.git_config(CI_USER_EMAIL, ...)
ConfigureAuthor(key, ok) ==
    /\ mig_pc = IF key = CI_USER_NAME THEN "config_name" ELSE "config_email"
    /\ IF ok
       THEN /\ git_config' =
                  ConfigSet(git_config, key,
                            IF key = CI_USER_NAME THEN commit_data.author_name
                            ELSE commit_data.author_email)
            /\ mig_pc' = IF key = CI_USER_NAME THEN "config_email"
                         ELSE "committer_date"
            /\ UNCHANGED mig_error
       ELSE CommandFailed /\ UNCHANGED git_config
    /\ UNCHANGED <<rebasebranch, local_branches, remote_branches, tags, ENV,
                   saved_originals, tag_queue, commit_data,
                   original_git_committer_date, called_with>>

\* original_git_committer_date = ENV.get(...); ENV[...] = commit_data[CD_DATE]
SetCommitterDate ==
    /\ mig_pc = "committer_date"
    /\ original_git_committer_date' = DictGet(ENV, ENV_GIT_COMMITTER_DATE)
    /\ ENV' = DictUpdate(ENV, ENV_GIT_COMMITTER_DATE :> commit_data.date)
    /\ mig_pc' = "tag"
    /\ UNCHANGED <<rebasebranch, local_branches, remote_branches, tags,
                   git_config, mig_error, saved_originals, tag_queue,
                   commit_data, called_with>>

\* `git tag -a -m ...`, and ENV put back after it
CreateTag(ok) ==
    /\ mig_pc = "tag"
    /\ IF ok
       THEN /\ ENV' = committer_date_restored(ENV, original_git_committer_date)
            /\ mig_pc' = "delete_branch"
            /\ UNCHANGED mig_error
       ELSE CommandFailed /\ UNCHANGED ENV
    /\ UNCHANGED <<rebasebranch, local_branches, remote_branches, tags,
                   git_config, saved_originals, tag_queue, commit_data,
                   original_git_committer_date, called_with>>

\* `git branch -d -r <tag_name>`, and on to the next tag
DeleteTagBranch(ok) ==
    /\ mig_pc = "delete_branch"
    /\ IF ok
       THEN /\ tag_queue' = Tail(tag_queue)
            /\ mig_pc' = IF Tail(tag_queue) = <<>> THEN "finally"
                         ELSE "commit_data"
            /\ UNCHANGED mig_error
       ELSE CommandFailed /\ UNCHANGED tag_queue
    /\ UNCHANGED <<rebasebranch, local_branches, remote_branches, tags, ENV,
                   git_config, saved_originals, commit_data,
                   original_git_committer_date, called_with>>

\* What the finally clause does for one key: [config, failed]
RestoredKey(config, key, value) ==
    IF value # ""
    THEN [config |-> ConfigSet(config, key, value), failed |-> FALSE]
    ELSE IF ConfigUnsetFails(config, key)
    THEN [config |-> config, failed |-> TRUE]
    ELSE [config |-> DictDelete(config, key), failed |-> FALSE]

\* The finally clause, and the way _fix_tags ends after it: it returns, or
\* the error of the try block goes on, or that of a failed unset
FixTagsFinally ==
    /\ mig_pc = "finally"
    /\ LET name == RestoredKey(git_config, CI_USER_NAME,
                               saved_originals[CI_USER_NAME])
           email == RestoredKey(name.config, CI_USER_EMAIL,
                                saved_originals[CI_USER_EMAIL])
       IN  IF tags = {}
           THEN /\ UNCHANGED <<git_config, mig_error>>
                /\ mig_pc' = "returned"
           ELSE IF name.failed
           THEN /\ UNCHANGED git_config
                /\ mig_error' = "[Command failed]"
                /\ mig_pc' = "exited"
           ELSE /\ git_config' = email.config
                /\ mig_error' = IF email.failed THEN "[Command failed]"
                                ELSE mig_error
                /\ mig_pc' = IF email.failed \/ mig_error # "" THEN "exited"
                             ELSE "returned"
    /\ UNCHANGED <<rebasebranch, local_branches, remote_branches, tags, ENV,
                   saved_originals, tag_queue, commit_data,
                   original_git_committer_date, called_with>>

\* `needle in hay` of two strings
Contains(needle, hay) ==
    \E i \in 1..(Len(hay) - Len(needle) + 1) :
        SubSeq(hay, i, i + Len(needle) - 1) = needle

MatchesWholeName(needle, branch) == needle = branch

\* `self.options.rebasebranch in branch`
MatchesRemote(needle, branch) == Contains(needle, branch)

\* `len(remote_branch_candidates) > 2`
TooManyRemotes(candidates) == Cardinality(candidates) > 2

\* _get_rebasebranch
GetRebasebranch ==
    /\ mig_pc = "get_rebasebranch"
    /\ LET local_branch_candidates ==
               {branch \in local_branches : branch = rebasebranch}
           remote_branch_candidates ==
               {branch \in remote_branches :
                   MatchesRemote(rebasebranch, branch)}
       IN  IF local_branch_candidates = {}
           THEN /\ mig_error' = "No local branches named %r found."
                /\ mig_pc' = "exited"
                /\ UNCHANGED <<local_branches, remote_branches, tags>>
           ELSE \E found_local_branch \in local_branch_candidates :
                IF local_branch_candidates \ {found_local_branch} # {}
                THEN /\ mig_error' =
                           "Too many matching local branches found: %s, %s."
                     /\ mig_pc' = "exited"
                     /\ UNCHANGED <<local_branches, remote_branches, tags>>
                ELSE IF remote_branch_candidates = {}
                THEN /\ mig_error' = "No remote branches named %r found."
                     /\ mig_pc' = "exited"
                     /\ UNCHANGED <<local_branches, remote_branches, tags>>
                ELSE IF TooManyRemotes(remote_branch_candidates)
                THEN /\ mig_error' =
                           "Too many matching remote branches found: %s."
                     /\ mig_pc' = "exited"
                     /\ UNCHANGED <<local_branches, remote_branches, tags>>
                ELSE /\ local_branches' = {found_local_branch}
                     /\ remote_branches' = remote_branch_candidates
                     /\ tags' = {}
                     /\ mig_pc' = "fix_branches"
                     /\ UNCHANGED mig_error
    /\ UNCHANGED <<rebasebranch, ENV, git_config, saved_originals, tag_queue,
                   commit_data, original_git_committer_date, called_with>>

\* Nothing of a migration.
MigrationIdle ==
    /\ rebasebranch = <<>>
    /\ local_branches = {}
    /\ remote_branches = {}
    /\ tags = {}
    /\ ENV = EmptyDict
    /\ git_config = EmptyDict
    /\ mig_pc = "idle"
    /\ mig_error = ""
    /\ NoFixTagsLocals
    /\ called_with = [ENV |-> EmptyDict, git_config |-> EmptyDict,
                      local_branches |-> {}, remote_branches |-> {},
                      tags |-> {}]

\* A migration at the call of _get_rebasebranch (after _get_branches) or at
\* the call of _fix_tags.
MigrationInit ==
    /\ mig_error = ""
    /\ NoFixTagsLocals
    /\ ENV \in Environments
    /\ git_config \in Configurations
    /\ tags \in SUBSET Range(TagBranches)
    /\ \/ /\ mig_pc = "get_rebasebranch"
          /\ rebasebranch \in RebasebranchOptions
          /\ local_branches \in SUBSET LocalBranchNames
          /\ remote_branches \in SUBSET RemoteBranchNames
       \/ /\ mig_pc = "fix_tags"
          /\ rebasebranch = <<>>
          /\ local_branches = {}
          /\ remote_branches = {}
    /\ called_with = [ENV |-> ENV, git_config |-> git_config,
                      local_branches |-> local_branches,
                      remote_branches |-> remote_branches, tags |-> tags]

MigrationNext ==
    \/ GetRebasebranch
    \/ FixTagsStart
    \/ \E ok \in BOOLEAN : GetCommitData(ok)
    \/ \E key \in {CI_USER_NAME, CI_USER_EMAIL}, ok \in BOOLEAN :
          ConfigureAuthor(key, ok)
    \/ SetCommitterDate
    \/ \E ok \in BOOLEAN : CreateTag(ok)
    \/ \E ok \in BOOLEAN : DeleteTagBranch(ok)
    \/ FixTagsFinally

\* ================================================ unique_commit_authors
\* What --chunk-size accepts (type=int) and the head revisions examined.
ChunkSizes == -1..MaxChunkSize

HeadRevisions == 0..MaxRevision

ChunkEndUnclamped(base, size, head) == base + size - 1

\* current_end = current_base + chunk_size - 1, at most head_revision
ChunkEnd(base, size, head) ==
    IF base + size - 1 > head THEN head ELSE base + size - 1

\* _examine_log_chunks before its loop
ExamineStart ==
    /\ exam_pc = "examine"
    /\ current_base' = 1
    /\ exam_pc' = "loop"
    /\ UNCHANGED <<head_revision, chunk_size, current_end, requested>>

\* One pass of the while loop: `svn log -r base:end`, which raises the
\* CalledProcessError where svn fails (check=True); the model follows
\* current_base down to -MaxRevision only.
ExamineChunk(ok) ==
    /\ exam_pc = "loop"
    /\ current_base <= head_revision
    /\ current_base > -MaxRevision
    /\ current_end' = ChunkEnd(current_base, chunk_size, head_revision)
    /\ requested' = requested \cup {<<current_base, current_end'>>}
    /\ IF ok
       THEN /\ current_base' = current_end' + 1
            /\ UNCHANGED exam_pc
       ELSE /\ exam_pc' = "raised"
            /\ UNCHANGED current_base
    /\ UNCHANGED <<head_revision, chunk_size>>

\* `while current_base <= self.head_revision` is over
ExamineReturn ==
    /\ exam_pc = "loop"
    /\ current_base > head_revision
    /\ exam_pc' = "returned"
    /\ UNCHANGED <<head_revision, chunk_size, current_base, current_end,
                   requested>>

ExaminerIdle ==
    /\ head_revision = 0
    /\ chunk_size = 0
    /\ current_base = 0
    /\ current_end = 0
    /\ exam_pc = "idle"
    /\ requested = {}

ExaminerInit ==
    /\ head_revision \in HeadRevisions
    /\ chunk_size \in ChunkSizes
    /\ current_base = 0
    /\ current_end = 0
    /\ exam_pc = "examine"
    /\ requested = {}

ExaminerNext ==
    \/ ExamineStart
    \/ \E ok \in BOOLEAN : ExamineChunk(ok)
    \/ ExamineReturn

ToolsIdle == MigrationIdle /\ ExaminerIdle

\* ------------------------------------------------------ specifications
\* While one part runs the other is not there.
NoFullPush ==
    /\ maximum_batch_size = 0
    /\ container_call = NoCall
    /\ push_returncodes = {}
    /\ fail_fast = FALSE
    /\ successful_pushes = <<>>
    /\ failed_pushes = EmptyDict
    /\ skipped_pushes = EmptyDict
    /\ failed_commits = <<>>
    /\ batch_pushes_failed = EmptyDict
    /\ branch_index = 1
    /\ highest_returncode = RETURNCODE_OK
    /\ checked_out = ""
    /\ branch_result = RETURNCODE_OK
    /\ number_to_push = 0
    /\ push_returncode = RETURNCODE_OK
    /\ last_offset = 0
    /\ batch_size = 0
    /\ pushed_commits = 0
    /\ failed_constellations = <<>>
    /\ last_step = NoStep
    /\ push_calls = 0
    /\ step_fails = 0
    /\ fail_after_ok = FALSE
    /\ single_push_failed = {}
    /\ count_error_logged = FALSE
    /\ commits_counted = 0
    /\ attempted = <<>>
    /\ tags_names = <<>>
    /\ tags_successful_pushes = <<>>
    /\ tags_failed_pushes = EmptyDict
    /\ tags_skipped_pushes = EmptyDict
    /\ tag_index = 1
    /\ tags_highest_returncode = RETURNCODE_OK
    /\ tags_result = RETURNCODE_OK
    /\ found = <<>>
    /\ original_branch = ""
    /\ exit_status = RETURNCODE_OK
    /\ exit_message = ""
    /\ report = NoReport

PushIdle ==
    /\ names = <<>>
    /\ pc = "idle"
    /\ NoFullPush

StreamIdle ==
    /\ child_written = [s \in Streams |-> 0]
    /\ pipe = [s \in Streams |-> <<>>]
    /\ pipe_closed = [s \in Streams |-> FALSE]
    /\ child_exited = FALSE
    /\ child_returncode = 0
    /\ reader_pc = [s \in Streams |-> "idle"]
    /\ reader_line = [s \in Streams |-> <<>>]
    /\ queue = [s \in Streams |-> <<>>]
    /\ handle_closed = [s \in Streams |-> FALSE]
    /\ check = FALSE
    /\ mon_pc = <<"idle", "process">>
    /\ collected = [s \in Streams |-> <<>>]
    /\ completed_process = NoProcess
    /\ logged = [s \in Streams |-> <<>>]
    /\ eof_result = [s \in Streams |-> "none"]
    /\ eof_true_calls = [s \in Streams |-> 0]

Init == PushInit /\ StreamIdle /\ ToolsIdle

Next ==
    \/ \E setup \in SetupOutcomes : RunStart(setup) /\ UNCHANGED <<streamVars, toolVars>>
    \/ \E n \in 0..(MaxCommits - commits_counted) :
          PushSingleBranch(n) /\ UNCHANGED <<streamVars, toolVars>>
    \/ \E rc \in push_returncodes : PushIteration(rc) /\ UNCHANGED <<streamVars, toolVars>>
    \/ PushIncrementallyReturn /\ UNCHANGED <<streamVars, toolVars>>
    \/ PushBranchesNext /\ UNCHANGED <<streamVars, toolVars>>
    \/ \E rc \in push_returncodes : PushAllBranches(rc) /\ UNCHANGED <<streamVars, toolVars>>
    \/ RunAfterBranches /\ UNCHANGED <<streamVars, toolVars>>
    \/ \E rc \in push_returncodes : PushTag(rc) /\ UNCHANGED <<streamVars, toolVars>>
    \/ PushTagsReturn /\ UNCHANGED <<streamVars, toolVars>>
    \/ \E rc \in push_returncodes : PushAllTags(rc) /\ UNCHANGED <<streamVars, toolVars>>
    \/ RunReturn /\ UNCHANGED <<streamVars, toolVars>>

Spec == Init /\ [][Next]_vars

\* The main thread is the only thread of a push: it always takes its next step.
FairSpec == Spec /\ WF_vars(Next)

\* Runs over longer lists of branches, with batches of at most two commits.
OrderInit ==
    /\ maximum_batch_size \in {0, 1, 2}
    /\ found \in FindMoreBranches
    /\ push_returncodes = PushReturncodes
    /\ FullPushInit
    /\ StreamIdle
    /\ ToolsIdle

OrderSpec == OrderInit /\ [][Next]_vars

\* Runs in which git can also be ended by a signal, with batches of at most
\* two commits.
SignalInit ==
    /\ maximum_batch_size \in {0, 1, 2}
    /\ found \in FindBranches
    /\ push_returncodes = PushReturncodesWithSignals
    /\ FullPushInit
    /\ StreamIdle
    /\ ToolsIdle

SignalSpec == SignalInit /\ [][Next]_vars

StreamStart == StreamInit /\ PushIdle /\ ToolsIdle

\* A DataContainer on its own, marked by whoever holds it.
TrackerInit ==
    /\ names \in TrackedNames
    /\ pc = "tracker"
    /\ NoFullPush
    /\ StreamIdle
    /\ ToolsIdle

TrackerNext ==
    \/ \E name \in Range(names) : MarkSuccessful(name) /\ TrackerFrame
    \/ \E name \in Range(names), cause \in Causes :
          MarkFailed(name, cause) /\ TrackerFrame
    \/ \E reason \in Reasons : SkipRemaining(reason) /\ TrackerFrame
    \/ \E cause \in Causes : SetAllFailed(cause) /\ TrackerFrame
    \/ SetAllSuccessful /\ TrackerFrame

TrackerSpec == TrackerInit /\ [][TrackerNext]_vars

StreamNext ==
    \/ \E s \in Streams : ChildWrite(s) /\ UNCHANGED <<pushVars, toolVars>>
    \/ \E s \in Streams : ChildClose(s) /\ UNCHANGED <<pushVars, toolVars>>
    \/ \E rc \in ExitCodes : ChildExit(rc) /\ UNCHANGED <<pushVars, toolVars>>
    \/ \E s \in Streams : ReaderReadline(s) /\ UNCHANGED <<pushVars, toolVars>>
    \/ \E s \in Streams : ReaderPut(s) /\ UNCHANGED <<pushVars, toolVars>>
    \/ \E s \in Streams : ReaderExit(s) /\ UNCHANGED <<pushVars, toolVars>>
    \/ \E s \in Streams : MonitorEofAlive(s) /\ UNCHANGED <<pushVars, toolVars>>
    \/ \E s \in Streams : MonitorEofEmpty(s) /\ UNCHANGED <<pushVars, toolVars>>
    \/ \E s \in Streams : MonitorReadlines(s) /\ UNCHANGED <<pushVars, toolVars>>
    \/ \E s \in Streams : MonitorGet(s) /\ UNCHANGED <<pushVars, toolVars>>
    \/ \E s \in Streams : MonitorJoin(s) /\ UNCHANGED <<pushVars, toolVars>>
    \/ \E s \in Streams : MonitorClose(s) /\ UNCHANGED <<pushVars, toolVars>>
    \/ MonitorWait /\ UNCHANGED <<pushVars, toolVars>>
    \/ MonitorInterrupt /\ UNCHANGED <<pushVars, toolVars>>

StreamSpec == StreamStart /\ [][StreamNext]_vars

MigrationStart == MigrationInit /\ PushIdle /\ StreamIdle /\ ExaminerIdle

MigrationStep ==
    MigrationNext /\ UNCHANGED <<pushVars, streamVars, examinerVars>>

MigrationSpec == MigrationStart /\ [][MigrationStep]_vars

ExaminerStart == ExaminerInit /\ PushIdle /\ StreamIdle /\ MigrationIdle

ExaminerStep ==
    ExaminerNext /\ UNCHANGED <<pushVars, streamVars, migrationVars>>

ExaminerSpec == ExaminerStart /\ [][ExaminerStep]_vars

\* The script is one thread, which goes on as long as it can.
FairExaminerSpec == ExaminerSpec /\ WF_vars(ExaminerStep)

\* The steps of a reader thread and of the main thread, which the scheduler
\* of the threads lets run again and again; the child runs as it likes, and
\* nothing promises that it ever writes, closes a stream or ends.
ReaderStep(s) == ReaderReadline(s) \/ ReaderPut(s) \/ ReaderExit(s)

MonitorStep ==
    \/ \E s \in Streams :
          \/ MonitorEofAlive(s)
          \/ MonitorEofEmpty(s)
          \/ MonitorReadlines(s)
          \/ MonitorGet(s)
          \/ MonitorJoin(s)
          \/ MonitorClose(s)
    \/ MonitorWait

FairStreamSpec ==
    /\ StreamSpec
    /\ \A s \in Streams : WF_vars(ReaderStep(s) /\ UNCHANGED <<pushVars, toolVars>>)
    /\ WF_vars(MonitorStep /\ UNCHANGED <<pushVars, toolVars>>)

\* ============================================================ properties
CeilDiv(n, m) == (n + m - 1) \div m

CurrentBranch == names[branch_index]

InLoop == pc = "push_incrementally"

\* A pass of the batch loop is about to be made / was made in this step.
AtPass == InLoop /\ last_offset # 0

PassDone == AtPass /\ last_step' # last_step

\* C1: while no pass of the batch loop has failed for the branch, every
\* pass invokes `git push` with min(maximum_batch_size, remaining) commits,
\* and the branch is through after ceil(N / maximum_batch_size) invocations
\* with pushed_commits = N, recorded successful and not recorded failed.
C1_AllPushesSucceed ==
    (pc \in {"push_incrementally", "returned"} /\ step_fails = 0) =>
        /\ last_step.kind # "none" =>
              /\ last_step.kind = "push"
              /\ last_step.batch = Min(maximum_batch_size, last_step.offset)
              /\ last_step.batch >= 1
        /\ InLoop =>
              /\ pushed_commits + last_offset = number_to_push
              /\ push_calls = CeilDiv(pushed_commits, maximum_batch_size)
        /\ pc = "returned" =>
              /\ push_calls = CeilDiv(number_to_push, maximum_batch_size)
              /\ number_to_push > 0 => pushed_commits = number_to_push
              /\ push_returncode = RETURNCODE_OK
              /\ CurrentBranch \in Range(successful_pushes)
              /\ CurrentBranch \notin DOMAIN failed_pushes

C1_Witness ==
    /\ pc = "returned"
    /\ step_fails = 0
    /\ branch_index = 2
    /\ batch_pushes_failed # EmptyDict
    /\ maximum_batch_size = 3
    /\ number_to_push = 7
    /\ push_calls = 3

\* C2: the pass that follows a push that failed with more than one commit
\* tries half of that batch size (rounded down), with last_offset and
\* pushed_commits as they were.
C2_FailureHalves ==
    [][(PassDone /\ last_step.kind = "push" /\ Failed(last_step.rc)
            /\ last_step.batch > 1)
        => /\ last_step'.batch = last_step.batch \div 2
           /\ last_step'.offset = last_step.offset
           /\ last_step'.pushed = last_step.pushed
           /\ last_offset = last_step.offset
           /\ pushed_commits = last_step.pushed]_vars

C2_Witness ==
    /\ last_step.kind = "push"
    /\ last_step.batch = 2
    /\ Len(failed_constellations) >= 2
    /\ failed_constellations[Len(failed_constellations)][1] = 5
    /\ pushed_commits > 0

\* C3: a push of one commit that fails ends the branch: it is recorded in
\* failed_pushes, push_incrementally returns a non-zero code, the branch is
\* never recorded successful and no push is invoked for it any more.
C3_FailureAtOne ==
    [][/\ (PassDone /\ last_step'.kind = "push" /\ Failed(last_step'.rc)
              /\ last_step'.batch = 1)
          => /\ pc' = "returned"
             /\ push_returncode' # RETURNCODE_OK
             /\ CurrentBranch \in DOMAIN failed_pushes'
             /\ CurrentBranch \notin Range(successful_pushes')
       /\ \A name \in DOMAIN failed_pushes :
             /\ name \in DOMAIN failed_pushes'
             /\ name \notin Range(successful_pushes')
             /\ push_calls' > push_calls => names[branch_index'] # name]_vars

C3_Witness ==
    /\ InLoop
    /\ branch_index = 2
    /\ names[1] \in DOMAIN failed_pushes
    /\ failed_pushes[names[1]].remaining = 2
    /\ push_calls >= 1

\* C4: a constellation (batch size, tip commit) that is a key of
\* batch_pushes_failed stays one for the rest of the run, and a pass that
\* comes upon it does not invoke `git push`.
C4_KnownConstellationNotPushed ==
    [][/\ DOMAIN batch_pushes_failed \subseteq DOMAIN batch_pushes_failed'
       /\ (AtPass /\ <<Min(batch_size, last_offset),
                       get_commit_id_before_head(
                           last_offset - Min(batch_size, last_offset))>>
                         \in DOMAIN batch_pushes_failed)
          => push_calls' = push_calls]_vars

C4_Witness ==
    /\ last_step.kind = "memo"
    /\ last_step.batch = 3
    /\ branch_index = 2
    /\ pushed_commits > 0
    /\ push_calls >= 1

\* C5: the batch loop ends.  Every pass either pushes (last_offset gets
\* smaller and stays >= 0), or fails with more than one commit (last_offset
\* stays and the batch size gets smaller but not below 1), or fails for good
\* (the branch is recorded failed and the function returns); a branch that
\* entered the loop leaves it, with nothing left and recorded successful or
\* with something left and recorded failed.
C5_LoopTerminates ==
    /\ [][AtPass =>
            \/ /\ InLoop'
               /\ ~Failed(last_step'.rc)
               /\ last_offset' < last_offset
               /\ last_offset' >= 0
            \/ /\ InLoop'
               /\ Failed(last_step'.rc)
               /\ last_offset' = last_offset
               /\ batch_size' < Min(batch_size, last_offset)
               /\ batch_size' >= 1
            \/ /\ pc' = "returned"
               /\ Failed(last_step'.rc)
               /\ last_offset' = last_offset
               /\ CurrentBranch \in DOMAIN failed_pushes']_vars
    /\ [](pc = "returned" /\ number_to_push > 0 =>
            \/ /\ last_offset = 0
               /\ CurrentBranch \in Range(successful_pushes)
               /\ CurrentBranch \notin DOMAIN failed_pushes
            \/ /\ last_offset > 0
               /\ CurrentBranch \in DOMAIN failed_pushes
               /\ CurrentBranch \notin Range(successful_pushes))
    /\ (InLoop ~> pc = "returned")

C5_Witness ==
    /\ pc = "returned"
    /\ branch_index = 2
    /\ batch_pushes_failed # EmptyDict
    /\ number_to_push = 7
    /\ step_fails >= 3
    /\ fail_after_ok
    /\ last_offset = 0

\* C6: 8 commits, at most 8 in a batch, the first three pushes fail and all
\* later ones succeed: the passes try 8, 4, 2, then 1 (7 left), 2 (5 left),
\* 4 (1 left) and 1 (0 left), all by `git push`, and the branch is recorded
\* successful with pushed_commits = 8.
ScenarioC6(calls) ==
    /\ number_to_push = 8
    /\ maximum_batch_size = 8
    /\ push_calls = calls
    /\ step_fails = Min(calls, 3)
    /\ ~fail_after_ok

NextPassIs(size, offset) ==
    /\ InLoop
    /\ last_offset = offset
    /\ Min(batch_size, last_offset) = size
    /\ pushed_commits = number_to_push - offset

LastPassWas(size, offset, failed) ==
    /\ last_step.kind = "push"
    /\ last_step.batch = size
    /\ last_step.offset = offset
    /\ Failed(last_step.rc) = failed
    /\ last_step.commit = get_commit_id_before_head(offset - size)

C6_EightFailingThrice ==
    /\ ScenarioC6(0) /\ pc # "returned" => NextPassIs(8, 8)
    /\ ScenarioC6(1) => LastPassWas(8, 8, TRUE) /\ NextPassIs(4, 8)
    /\ ScenarioC6(2) => LastPassWas(4, 8, TRUE) /\ NextPassIs(2, 8)
    /\ ScenarioC6(3) => LastPassWas(2, 8, TRUE) /\ NextPassIs(1, 8)
    /\ ScenarioC6(4) => LastPassWas(1, 8, FALSE) /\ NextPassIs(2, 7)
    /\ ScenarioC6(5) => LastPassWas(2, 7, FALSE) /\ NextPassIs(4, 5)
    /\ ScenarioC6(6) => LastPassWas(4, 5, FALSE) /\ NextPassIs(1, 1)
    /\ ScenarioC6(7) =>
          /\ LastPassWas(1, 1, FALSE)
          /\ last_offset = 0
          /\ pushed_commits = 8
          /\ pc = "returned" =>
                /\ CurrentBranch \in Range(successful_pushes)
                /\ CurrentBranch \notin DOMAIN failed_pushes
                /\ push_returncode = RETURNCODE_OK
    /\ \A calls \in 8..20 : ~ScenarioC6(calls)

C6_Witness ==
    /\ ScenarioC6(7)
    /\ pc = "returned"
    /\ CurrentBranch \in Range(successful_pushes)

\* C7: 10 commits, at most 4 in a batch, every push succeeds: the passes
\* push 4, 4 and 2 commits, leaving 6, 2 and 0.
ScenarioC7(calls) ==
    /\ number_to_push = 10
    /\ maximum_batch_size = 4
    /\ push_calls = calls
    /\ step_fails = 0

C7_TenInBatchesOfFour ==
    /\ ScenarioC7(0) /\ pc # "returned" => NextPassIs(4, 10)
    /\ ScenarioC7(1) => LastPassWas(4, 10, FALSE) /\ NextPassIs(4, 6)
    /\ ScenarioC7(2) => LastPassWas(4, 6, FALSE) /\ NextPassIs(2, 2)
    /\ ScenarioC7(3) =>
          /\ LastPassWas(2, 2, FALSE)
          /\ last_offset = 0
          /\ pushed_commits = 10
    /\ \A calls \in 4..20 : ~ScenarioC7(calls)

C7_Witness ==
    /\ ScenarioC7(3)
    /\ pc = "returned"
    /\ CurrentBranch \in Range(successful_pushes)

\* C8: a branch with nothing to push is recorded successful by the very
\* step that counted its commits, which returns RETURNCODE_OK, invokes no
\* `git push` and leaves failed_pushes, failed_commits and the memo table
\* as they were.
C8_NothingToPush ==
    [][(pc = "push_branches" /\ maximum_batch_size # 0 /\ number_to_push' = 0)
        => /\ pc' = "returned"
           /\ push_returncode' = RETURNCODE_OK
           /\ successful_pushes' = Append(successful_pushes, CurrentBranch)
           /\ push_calls' = push_calls
           /\ last_step' = NoStep
           /\ UNCHANGED <<failed_pushes, skipped_pushes, failed_commits,
                          batch_pushes_failed>>]_vars

C8_Witness ==
    /\ pc = "returned"
    /\ number_to_push = 0
    /\ branch_index = 2
    /\ batch_pushes_failed # EmptyDict
    /\ names[1] \in DOMAIN failed_pushes
    /\ CurrentBranch \in Range(successful_pushes)

\* ------------------------------------------- long_running_process_result
\* The lines the child has written to a stream so far, in order.
Written(s) == [i \in 1..child_written[s] |-> LineBytes(s, i)]

IsPrefix(a, b) == Len(a) <= Len(b) /\ a = SubSeq(b, 1, Len(a))

LoopLeft == mon_pc[1] \in {"join", "close", "wait", "returned", "raised"}

Returned == mon_pc[1] \in {"returned", "raised"}

\* C9: at any moment the lines collected for a stream are the first lines
\* the child wrote to it, each once and in the order written, and each was
\* logged once, in that order; when the polling loop is left the child has
\* closed both streams and every line it wrote has been collected and
\* logged, and the CompletedProcess holds exactly these lines.
C9_NoLineLostOrDuplicated ==
    \A s \in Streams :
        /\ IsPrefix(collected[s], Written(s))
        /\ Written(s) = collected[s] \o queue[s]
                \o (IF reader_pc[s] = "put" THEN <<reader_line[s]>> ELSE <<>>)
                \o pipe[s]
        /\ logged[s] = [i \in 1..Len(collected[s]) |->
                            LogMessage(collected[s][i])]
        /\ LoopLeft => /\ pipe_closed[s]
                       /\ collected[s] = Written(s)
        /\ Returned => completed_process[s] = Join(Written(s))

C9_Witness ==
    /\ mon_pc[1] = "returned"
    /\ child_written["stdout"] = 2
    /\ child_written["stderr"] = 2

\* C10: eof() returns True only when the reader thread has stopped and its
\* queue is empty, so it returns False as long as the thread has not seen
\* the end of the stream or a line is queued; once it has returned True it
\* returns True on every later call.
C10_EofOnlyWhenDrained ==
    \A s \in Streams :
        /\ eof_result[s] = "True" =>
              /\ reader_pc[s] = "stopped"
              /\ queue[s] = <<>>
              /\ pipe_closed[s]
        /\ eof_true_calls[s] >= 1 => eof_result[s] = "True"
        /\ eof_result[s] = "none" => eof_true_calls[s] = 0

C10_Witness ==
    /\ eof_true_calls["stdout"] = 2
    /\ eof_result["stderr"] = "False"
    /\ child_written["stdout"] = 2
    /\ Len(collected["stdout"]) = 2
    /\ queue["stderr"] # <<>>

\* str.encode, for the characters the child's lines are made of
AsciiBytes == {9, 10, 13, 32, 101, 111} \cup (48..57)

Ord(char) == CHOOSE byte \in AsciiBytes : Chr(byte) = char

Encode(text) == [i \in DOMAIN text |-> Ord(text[i])]

EncodedLines(messages) == [i \in DOMAIN messages |-> Encode(messages[i])]

WhitespaceBytes == {Ord(char) : char \in Whitespace}

\* C11 as stated: the lines logged for a stream, put together in logging
\* order, are the bytes of that stream in the returned CompletedProcess.
C11_LoggedEqualsCaptured ==
    mon_pc[1] = "returned" =>
        \A s \in Streams :
            Join(EncodedLines(logged[s])) = completed_process[s]

\* C11, amended: whatever the interleaving, the i-th message logged for a
\* stream is the i-th line collected for it, decoded and without the
\* whitespace at its end (the line terminator included): encoded again it
\* is the front of that line, what follows it in the line is whitespace,
\* and it does not end in whitespace itself; the buffer of the returned
\* CompletedProcess is the concatenation of the lines as they were read.
C11_LoggedIsCapturedStripped ==
    \A s \in Streams :
        /\ Len(logged[s]) = Len(collected[s])
        /\ \A i \in DOMAIN logged[s] :
              LET message == logged[s][i]
                  line == collected[s][i]
                  stripped == SubSeq(line, Len(message) + 1, Len(line))
              IN  /\ Len(message) <= Len(line)
                  /\ Encode(message) = SubSeq(line, 1, Len(message))
                  /\ \A j \in DOMAIN stripped : stripped[j] \in WhitespaceBytes
                  /\ message = <<>> \/ message[Len(message)] \notin Whitespace
        /\ mon_pc[1] = "returned" => completed_process[s] = Join(collected[s])

C11_Witness ==
    /\ mon_pc[1] = "returned"
    /\ Len(logged["stdout"]) = 2
    /\ Len(logged["stderr"]) = 2
    /\ Join(EncodedLines(logged["stdout"])) # completed_process["stdout"]
    /\ Len(logged["stderr"][1]) + 2 = Len(collected["stderr"][1])

\* Control has left long_running_process_result: it returned, it raised the
\* CalledProcessError of the check, or an exception left it from the loop.
ControlLeft == mon_pc[1] \in {"returned", "raised", "interrupted"}

EndedInOrder == mon_pc[1] \in {"returned", "raised"}

\* C12: whichever way control has left long_running_process_result, the
\* child has been waited for, so it has ended, and both reader threads have
\* been joined, so neither is alive.
C12_WaitedOnEveryExit ==
    ControlLeft =>
        /\ child_exited
        /\ \A s \in Streams : ~is_alive(s)

\* (the same, of the two exits after the loop only)
WaitedWhenEndedInOrder ==
    EndedInOrder =>
        /\ child_exited
        /\ \A s \in Streams : ~is_alive(s) /\ handle_closed[s]

\* C13: with check set and an exit status other than 0 the call ends with
\* the CalledProcessError, otherwise it returns; either way what it ends
\* with carries the child's exit status and, for each stream, all the lines
\* the child wrote to it, as written.
C13_StrictModeFailure ==
    /\ mon_pc[1] = "raised" => check /\ child_returncode # 0
    /\ mon_pc[1] = "returned" => ~check \/ child_returncode = 0
    /\ EndedInOrder =>
          /\ child_exited
          /\ completed_process =
                [returncode |-> child_returncode,
                 stdout |-> Join(Written("stdout")),
                 stderr |-> Join(Written("stderr"))]
    /\ ~EndedInOrder => completed_process = NoProcess

C13_Witness ==
    /\ mon_pc[1] = "raised"
    /\ completed_process.returncode = 2
    /\ Len(completed_process.stdout) = 7
    /\ Len(completed_process.stderr) = 4

C13_WitnessReturned ==
    /\ mon_pc[1] = "returned"
    /\ ~check
    /\ completed_process.returncode = 1
    /\ Len(completed_process.stderr) = 7

\* ------------------------------------------------------------------ run
\* The items a container records as successful, failed or skipped are its
\* names, no item is recorded in two ways and none twice as successful.
OutcomesDisjoint(item_names, successful, failed, skipped) ==
    /\ Range(successful) \subseteq Range(item_names)
    /\ DOMAIN failed \subseteq Range(item_names)
    /\ DOMAIN skipped \subseteq Range(item_names)
    /\ Range(successful) \cap DOMAIN failed = {}
    /\ Range(successful) \cap DOMAIN skipped = {}
    /\ DOMAIN failed \cap DOMAIN skipped = {}
    /\ Cardinality(Range(successful)) = Len(successful)

\* Every name of a container has an outcome.
OutcomesComplete(item_names, successful, failed, skipped) ==
    Range(item_names) = Range(successful) \cup DOMAIN failed \cup DOMAIN skipped

\* C14: at every moment of a run, for the branches and for the tags, the
\* items recorded successful, failed and skipped are names of the container
\* and no item is recorded in two of these ways (or twice); when run returns,
\* every branch and every tag is recorded in exactly one way.
C14_OneOutcomePerItem ==
    /\ OutcomesDisjoint(names, successful_pushes, failed_pushes, skipped_pushes)
    /\ OutcomesDisjoint(tags_names, tags_successful_pushes, tags_failed_pushes,
                        tags_skipped_pushes)
    /\ pc = "finished" =>
          /\ OutcomesComplete(names, successful_pushes, failed_pushes,
                              skipped_pushes)
          /\ OutcomesComplete(tags_names, tags_successful_pushes,
                              tags_failed_pushes, tags_skipped_pushes)

C14_Witness ==
    /\ pc = "finished"
    /\ maximum_batch_size = 2
    /\ DOMAIN failed_pushes = {"master"}
    /\ successful_pushes = <<"feature">>
    /\ DOMAIN tags_failed_pushes = {"v1"}
    /\ tags_successful_pushes = <<"v2">>

\* (the run that --fail-fast ended: the branches not attempted are skipped)
C14_WitnessSkipped ==
    /\ pc = "exited"
    /\ DOMAIN failed_pushes = {"master"}
    /\ DOMAIN skipped_pushes = {"feature"}

\* The script has ended, by sys.exit(main(...)) or by exit_with_error.
Ended == pc \in {"finished", "exited"}

\* C16: a run that ends with a branch or a tag recorded as failed ends with
\* an exit status other than 0.
C16_FailureExitsNonZero ==
    (Ended /\ (failed_pushes # EmptyDict \/ tags_failed_pushes # EmptyDict))
        => exit_status # 0

\* (the same of the tags alone, and of the runs that end by exit_with_error)
ExitStatusOfTagsAndErrors ==
    /\ (pc = "finished" /\ tags_failed_pushes # EmptyDict) => exit_status # 0
    /\ pc = "finished" => exit_status = tags_result
    /\ pc = "exited" => exit_status = RETURNCODE_ERROR

\* push_branches has returned.
AfterBranches ==
    \/ pc \in {"done", "push_tags", "output", "finished"}
    \/ /\ pc = "exited"
       /\ exit_message \in {"All branch pushes failed!",
                             "Run this script again without the --fail-fast option"}

NoTagPushed == tags_successful_pushes = <<>> /\ tags_failed_pushes = EmptyDict

\* C17: without --fail-fast, a branch whose push failed for good is recorded
\* failed and the next branch of the push order is attempted all the same, so
\* that push_branches returns with every branch attempted, in order; from
\* there the run goes on to the tags, all of which are pushed before it
\* returns, unless every branch failed, the one case in which it ends by
\* exit_with_error, with no tag pushed.
C17_BranchFailureNotFatal ==
    /\ [](~fail_fast =>
            /\ (pc = "returned" /\ push_returncode # 0) =>
                  CurrentBranch \in DOMAIN failed_pushes
            /\ (AfterBranches /\ maximum_batch_size # 0) => attempted = names
            /\ pc \in {"push_tags", "output", "finished"} =>
                  DOMAIN failed_pushes # Range(names)
            /\ (pc = "exited" /\ AfterBranches) =>
                  /\ exit_message = "All branch pushes failed!"
                  /\ DOMAIN failed_pushes = Range(names)
                  /\ successful_pushes = <<>>
                  /\ NoTagPushed
            /\ pc = "finished" =>
                  OutcomesComplete(tags_names, tags_successful_pushes,
                                   tags_failed_pushes, tags_skipped_pushes))
    /\ [][~fail_fast =>
            /\ (pc = "returned" /\ branch_index < Len(names)) =>
                  /\ pc' = "push_branches"
                  /\ branch_index' = branch_index + 1
            /\ (pc = "push_branches" /\ maximum_batch_size # 0) =>
                  attempted' = Append(attempted, names[branch_index])
            /\ (pc = "done" /\ DOMAIN failed_pushes # Range(names)) =>
                  pc' = "push_tags"
            /\ (pc = "done" /\ DOMAIN failed_pushes = Range(names)) =>
                  pc' = "exited"]_vars

C17_Witness ==
    /\ pc = "finished"
    /\ ~fail_fast
    /\ names = <<"main", "development", "hotfix", "feature">>
    /\ DOMAIN failed_pushes = {"main", "hotfix"}
    /\ successful_pushes = <<"development", "feature">>
    /\ Len(tags_successful_pushes) + Cardinality(DOMAIN tags_failed_pushes) = 2
    /\ exit_status = 0

\* A pass of the batch loop invokes `git push` and it ends with a return
\* code other than 0.
PushFails == PassDone /\ last_step'.kind = "push" /\ Failed(last_step'.rc)

\* C18: no step of the batch loop ends the script.  A `git push` that ends
\* with a return code other than 0 becomes push_returncode; with more than
\* one commit in the batch all it changes is the list of the branch's failed
\* constellations and the batch size, which is halved; with one commit it
\* records the branch failed (memo table, failed_pushes, failed_commits) and
\* push_incrementally returns the code.
C18_PushFailureIsAReturncode ==
    [][/\ InLoop => /\ pc' # "exited"
                    /\ UNCHANGED <<exit_status, exit_message>>
       /\ PushFails =>
             /\ push_returncode' = last_step'.rc
             /\ UNCHANGED <<optionVars, successful_pushes, skipped_pushes,
                            branch_index, highest_returncode, checked_out,
                            branch_result, number_to_push, last_offset,
                            pushed_commits, attempted, tagVars, runVars>>
             /\ IF last_step'.batch > 1
                THEN /\ pc' = "push_incrementally"
                     /\ batch_size' = last_step'.batch \div 2
                     /\ failed_constellations' =
                           Append(failed_constellations,
                                  <<last_step'.batch, last_step'.commit>>)
                     /\ UNCHANGED <<failed_pushes, failed_commits,
                                    batch_pushes_failed>>
                ELSE /\ pc' = "returned"
                     /\ DOMAIN failed_pushes' =
                           DOMAIN failed_pushes \cup {CurrentBranch}
                     /\ Range(failed_commits') =
                           Range(failed_commits) \cup {last_step'.commit}
                     /\ DOMAIN batch_pushes_failed' =
                           DOMAIN batch_pushes_failed
                               \cup Range(failed_constellations)
                     /\ UNCHANGED failed_constellations]_vars

C18_Witness ==
    /\ pc = "finished"
    /\ exit_status = 0
    /\ maximum_batch_size = 4
    /\ Cardinality(DOMAIN batch_pushes_failed) = 2
    /\ DOMAIN failed_pushes = {"master"}
    /\ successful_pushes = <<"feature">>

\* The position of an item in a list without duplicates.
IndexOf(list, item) == CHOOSE i \in DOMAIN list : list[i] = item

ReportedItems(lines) == [i \in DOMAIN lines |-> lines[i].item]

\* C19: the names of the branches container are the branches found, each
\* once: the default-named ones come before all others, and two branches of
\* the same group are in the order in which they were found.  The branches
\* push_single_branch is called for are the first names, in this order, and
\* the summary of the branches lists all names in this order.
C19_DefaultBranchesFirst ==
    /\ Len(names) = Len(found)
    /\ Range(names) = Range(found)
    /\ \A i, j \in DOMAIN names :
          i < j =>
            /\ names[i] \in DEFAULT_BRANCH_NAMES
                  \/ names[j] \notin DEFAULT_BRANCH_NAMES
            /\ (names[i] \in DEFAULT_BRANCH_NAMES
                    <=> names[j] \in DEFAULT_BRANCH_NAMES)
                  => IndexOf(found, names[i]) < IndexOf(found, names[j])
    /\ Len(attempted) <= Len(names)
    /\ attempted = SubSeq(names, 1, Len(attempted))
    /\ pc \in {"push_incrementally", "returned"} =>
          /\ Len(attempted) = branch_index
          /\ checked_out = names[branch_index]
    /\ report.branches # <<>> => ReportedItems(report.branches) = names
    /\ pc = "finished" => report.branches # <<>>

C19_Witness ==
    /\ pc = "finished"
    /\ found = <<"main", "hotfix", "development", "feature">>
    /\ names = <<"main", "development", "hotfix", "feature">>
    /\ attempted = names
    /\ ReportedItems(report.branches) = names
    /\ DOMAIN failed_pushes = {"development"}

\* Every branch is recorded failed, with the given cause.
AllFailedWith(cause) ==
    /\ DOMAIN failed_pushes = Range(names)
    /\ \A name \in Range(names) : failed_pushes[name] = cause
    /\ successful_pushes = <<>>
    /\ skipped_pushes = EmptyDict

\* What a run without a maximum batch size never does or writes.
NoBatchLoop ==
    /\ pc \notin {"push_incrementally", "returned"}
    /\ attempted = <<>>
    /\ last_step = NoStep
    /\ failed_commits = <<>>
    /\ batch_pushes_failed = EmptyDict

\* C20 as stated: without a maximum batch size a failed push of the branches
\* records every branch failed with the cause "batch push failed".
C20_BatchPushFailed ==
    (maximum_batch_size = 0 /\ AfterBranches /\ branch_result # 0)
        => AllFailedWith("batch push failed")

\* C20, amended: without a maximum batch size push_branches invokes
\* `git push` once, for all branches, and never enters the batch loop; when
\* that push fails every branch is recorded failed with the cause
\* "global push failed" (when it succeeds, every branch is recorded
\* successful), and failed_commits and the memo table stay empty.
C20_GlobalPushFailed ==
    maximum_batch_size = 0 =>
        /\ NoBatchLoop
        /\ pc \in {"run", "push_branches"} => push_calls = 0
        /\ AfterBranches =>
              /\ push_calls = 1
              /\ branch_result # 0 => AllFailedWith("global push failed")
              /\ branch_result = 0 =>
                    /\ successful_pushes = names
                    /\ failed_pushes = EmptyDict
                    /\ skipped_pushes = EmptyDict

C20_Witness ==
    /\ maximum_batch_size = 0
    /\ pc = "exited"
    /\ branch_result # 0
    /\ push_calls = 1
    /\ DOMAIN failed_pushes = {"master", "feature"}
    /\ exit_message = "All branch pushes failed!"

\* ------------------------------------------------------- DataContainer
Occurrences(list, item) == Cardinality({i \in DOMAIN list : list[i] = item})

\* What a container records for a name.
Outcome(name) ==
    [successful |-> Occurrences(successful_pushes, name),
     failed |-> IF name \in DOMAIN failed_pushes
                THEN <<failed_pushes[name]>> ELSE <<>>,
     skipped |-> IF name \in DOMAIN skipped_pushes
                 THEN <<skipped_pushes[name]>> ELSE <<>>]

Pending(name) == Outcome(name) = [successful |-> 0, failed |-> <<>>,
                                  skipped |-> <<>>]

\* C15: what a container records for a name that is no longer pending is
\* never changed, whatever marking is attempted; a name is not recorded
\* successful twice and never in two ways.
C15_SecondMarkingRejected ==
    [][\A name \in Range(names) :
          ~Pending(name) => Outcome(name)' = Outcome(name)]_vars

\* ------------------------------------------------------------ summaries
\* The summary of the branches has been logged.
BranchesReported == report.branches # <<>>

NoDuplicates(list) == Cardinality(Range(list)) = Len(list)

\* The commits the failed branches are recorded to be blocked at.
BlockingCommits == {failed_pushes[name].commit : name \in DOMAIN failed_pushes}

FailedBranches == DOMAIN failed_pushes

NumbersAddUp(numbers, skipped) ==
    /\ numbers.skipped = Cardinality(DOMAIN skipped)
    /\ numbers.total = numbers.successful + numbers.failed + numbers.skipped

\* C21 as stated: in the summary the numbers add up with the items recorded
\* as skipped, and there is one commit log per failed branch.
C21_OneLogPerFailedBranch ==
    (BranchesReported /\ maximum_batch_size # 0) =>
        /\ NumbersAddUp(report.branch_numbers, skipped_pushes)
        /\ pc = "finished" => NumbersAddUp(report.tag_numbers, tags_skipped_pushes)
        /\ Len(report.commit_logs) = Cardinality(FailedBranches)

\* C21, amended: in the summary the numbers add up with the items recorded
\* as skipped, and the commit logs are those of the commits the failed
\* branches were blocked at, each commit once however many branches it
\* blocks.
C21_OneLogPerBlockingCommit ==
    (BranchesReported /\ maximum_batch_size # 0) =>
        /\ NumbersAddUp(report.branch_numbers, skipped_pushes)
        /\ pc = "finished" => NumbersAddUp(report.tag_numbers, tags_skipped_pushes)
        /\ report.commit_logs = failed_commit_logs
        /\ NoDuplicates(failed_commits)
        /\ Range(failed_commits) = BlockingCommits
        /\ Len(report.commit_logs) <= Cardinality(FailedBranches)

C21_Witness ==
    /\ pc = "finished"
    /\ maximum_batch_size # 0
    /\ Cardinality(FailedBranches) = 2
    /\ Len(report.commit_logs) = 1
    /\ report.branch_numbers.successful = 1

C21_WitnessSkipped ==
    /\ pc = "exited"
    /\ BranchesReported
    /\ report.branch_numbers.skipped = 2
    /\ Len(report.commit_logs) = 1

\* ----------------------------------------------------------- checkouts
BranchErrorExits == {"All branch pushes failed!",
                     "Run this script again without the --fail-fast option"}

TagsReached == pc \in {"push_tags", "output", "finished"}

\* C22: pushes come one after the other.  Every pass of the batch loop
\* (its resolution of the tip commit and its push) is made for the branch
\* that is checked out, a step makes at most one push, the working tree
\* changes branch only when push_single_branch takes the next branch or when
\* run goes back to the original branch, and the original branch is checked
\* out when the tags are pushed and when the run exits on a branch error.
C22_PushesInSequence ==
    /\ [](AtPass => checked_out = CurrentBranch)
    /\ [](TagsReached => checked_out = original_branch)
    /\ []((pc = "exited" /\ exit_message \in BranchErrorExits)
            => checked_out = original_branch)
    /\ [][/\ PassDone => /\ checked_out' = CurrentBranch
                          /\ push_calls' <= push_calls + 1
                          /\ UNCHANGED <<tag_index, tags_successful_pushes,
                                         tags_failed_pushes>>
          /\ checked_out' # checked_out =>
                \/ /\ pc = "push_branches"
                   /\ checked_out' = CurrentBranch
                   /\ attempted' = Append(attempted, checked_out')
                   /\ push_calls' = 0
                \/ /\ pc = "done"
                   /\ checked_out' = original_branch]_vars

C22_Witness ==
    /\ pc = "push_tags"
    /\ maximum_batch_size # 0
    /\ attempted = names
    /\ names[Len(names)] # original_branch
    /\ checked_out = original_branch
    /\ failed_pushes # EmptyDict
    /\ tag_index = 2

\* ------------------------------------------------------- the memo table
\* The constellation the next pass of the batch loop comes upon.
Constellation ==
    <<Min(batch_size, last_offset),
      get_commit_id_before_head(last_offset - Min(batch_size, last_offset))>>

SameConstellationFailedBefore ==
    AtPass /\ Constellation \in DOMAIN batch_pushes_failed

Memoized == batch_pushes_failed[Constellation]

\* C23: a pass that comes upon a constellation of batch_pushes_failed fails
\* with batch size 1 and without a push: in that step the branch is recorded
\* failed at the commit memoized for the constellation, the constellations
\* collected for the branch are added to the table with that commit, and
\* push_incrementally returns; no pass is made for a failed branch any more.
C23_KnownConstellationEndsBranch ==
    [][/\ SameConstellationFailedBefore =>
             /\ push_calls' = push_calls
             /\ last_step'.kind = "memo"
             /\ push_returncode' # RETURNCODE_OK
             /\ batch_size' = 1
             /\ pc' = "returned"
             /\ CurrentBranch \in DOMAIN failed_pushes'
             /\ CurrentBranch \notin Range(successful_pushes')
             /\ failed_pushes'[CurrentBranch] =
                    FailureCause(Memoized, number_to_push - pushed_commits)
             /\ Memoized \in Range(failed_commits')
             /\ DOMAIN batch_pushes_failed' =
                    DOMAIN batch_pushes_failed \cup Range(failed_constellations)
             /\ \A key \in Range(failed_constellations) :
                    batch_pushes_failed'[key] = Memoized
       /\ \A name \in DOMAIN failed_pushes :
             (last_step' # last_step /\ last_step'.kind # "none")
                => names[branch_index'] # name]_vars

C23_Witness ==
    /\ pc = "returned"
    /\ last_step.kind = "memo"
    /\ last_step.batch = 2
    /\ failed_constellations # <<>>
    /\ pushed_commits > 0
    /\ Range(failed_constellations) \subseteq DOMAIN batch_pushes_failed

\* ------------------------------------------------------------- ramp-up
Min3(a, b, c) == Min(Min(a, b), c)

\* The pass made in this step was a push that succeeded.
PushSucceeds == PassDone /\ last_step'.kind = "push" /\ ~Failed(last_step'.rc)

\* C24: a push of b commits that succeeds and leaves r > 0 commits takes b
\* from last_offset and adds b to pushed_commits, and the pass after it is
\* made with min(2 * b, maximum_batch_size, r) commits; no pass is made with
\* more than maximum_batch_size commits.
C24_SuccessDoubles ==
    /\ [](last_step.kind # "none" => last_step.batch <= maximum_batch_size)
    /\ [][/\ PushSucceeds =>
                /\ last_offset' = last_offset - last_step'.batch
                /\ pushed_commits' = pushed_commits + last_step'.batch
                /\ last_offset' > 0 =>
                      Min(batch_size', last_offset') =
                          Min3(2 * last_step'.batch, maximum_batch_size,
                               last_offset')
          /\ (PassDone /\ last_step.kind = "push" /\ ~Failed(last_step.rc)) =>
                /\ last_step'.offset = last_step.offset - last_step.batch
                /\ last_step'.pushed = last_step.pushed + last_step.batch
                /\ last_step'.batch =
                      Min3(2 * last_step.batch, maximum_batch_size,
                           last_step'.offset)]_vars

C24_Witness ==
    /\ last_step.kind = "push"
    /\ ~Failed(last_step.rc)
    /\ last_step.batch = 4
    /\ last_step.pushed = 3
    /\ maximum_batch_size = 5
    /\ step_fails = 2
    /\ last_offset = 3

\* ------------------------------------------------ what the table records
\* The commits of the batch of `size` commits whose newest commit is `tip`.
BatchCommits(size, tip) == (tip - size + 1)..tip

\* C25: every entry (batch size, tip commit) -> commit of batch_pushes_failed
\* names a commit of that batch whose push on its own has failed.
C25_MemoizedCommitOfTheBatch ==
    \A key \in DOMAIN batch_pushes_failed :
        /\ batch_pushes_failed[key] \in BatchCommits(key[1], key[2])
        /\ batch_pushes_failed[key] \in single_push_failed

\* What does hold of the entries: the commit is one whose push on its own
\* has failed, and it is not older than the batch.
MemoizedCommitWasBlocked ==
    \A key \in DOMAIN batch_pushes_failed :
        /\ batch_pushes_failed[key] \in single_push_failed
        /\ batch_pushes_failed[key] > key[2] - key[1]
        /\ single_push_failed = Range(failed_commits)

\* A pass made in this step failed and ended the branch / did not end it.
TerminalFailure == PassDone /\ Failed(last_step'.rc) /\ pc' = "returned"

IntermediateFailure == PassDone /\ Failed(last_step'.rc) /\ pc' # "returned"

BranchEndsSuccessful ==
    InLoop /\ pc' = "returned" /\ CurrentBranch \in Range(successful_pushes')

\* C26: batch_pushes_failed changes only in the step in which a branch is
\* recorded failed; that step adds the constellations that failed with more
\* than one commit while the branch was pushed (failed_constellations holds
\* exactly those), all with the commit the branch is recorded to fail at, and
\* leaves the older entries alone; a failure with more than one commit and
\* the end of a successful branch leave the table as it is; every key has a
\* batch size of at least 2 and every value is in failed_commits.
C26_TableWrittenAtTerminalFailure ==
    /\ [](\A key \in DOMAIN batch_pushes_failed :
             /\ key[1] >= 2
             /\ batch_pushes_failed[key] \in Range(failed_commits))
    /\ [][/\ batch_pushes_failed' # batch_pushes_failed => TerminalFailure
          /\ TerminalFailure =>
                /\ CurrentBranch \in DOMAIN failed_pushes'
                /\ DOMAIN batch_pushes_failed' =
                      DOMAIN batch_pushes_failed \cup Range(failed_constellations)
                /\ Range(failed_constellations) \cap DOMAIN batch_pushes_failed = {}
                /\ \A key \in Range(failed_constellations) :
                      batch_pushes_failed'[key] = failed_pushes'[CurrentBranch].commit
                /\ \A key \in DOMAIN batch_pushes_failed :
                      batch_pushes_failed'[key] = batch_pushes_failed[key]
          /\ IntermediateFailure =>
                /\ last_step'.batch > 1
                /\ failed_constellations' =
                      Append(failed_constellations,
                             <<last_step'.batch, last_step'.commit>>)
                /\ UNCHANGED batch_pushes_failed
          /\ (PassDone /\ ~IntermediateFailure) => UNCHANGED failed_constellations
          /\ pc = "push_branches" => failed_constellations' = <<>>
          /\ BranchEndsSuccessful => UNCHANGED batch_pushes_failed]_vars

C26_Witness ==
    /\ pc = "returned"
    /\ branch_index = 2
    /\ CurrentBranch \in DOMAIN failed_pushes
    /\ names[1] \in Range(successful_pushes)
    /\ Len(failed_constellations) = 2
    /\ pushed_commits > 0
    /\ Range(failed_constellations) = DOMAIN batch_pushes_failed

C26_WitnessSuccessful ==
    /\ pc = "returned"
    /\ branch_index = 2
    /\ CurrentBranch \in Range(successful_pushes)
    /\ failed_constellations # <<>>
    /\ DOMAIN batch_pushes_failed # {}
    /\ Range(failed_constellations) \cap DOMAIN batch_pushes_failed = {}

\* C27: one table for all branches of a run.  It is empty when the run
\* starts, no entry is ever removed or given another commit, taking the next
\* branch leaves it as it is, and a pass that comes upon one of its
\* constellations, which an earlier branch has put there, fails at once
\* without a push.
C27_TableSharedAndMonotone ==
    /\ [](pc = "run" => batch_pushes_failed = EmptyDict)
    /\ [](InLoop => Range(failed_constellations)
                        \cap DOMAIN batch_pushes_failed = {})
    /\ [][/\ \A key \in DOMAIN batch_pushes_failed :
                /\ key \in DOMAIN batch_pushes_failed'
                /\ batch_pushes_failed'[key] = batch_pushes_failed[key]
          /\ (pc \in {"returned", "push_branches"})
                => UNCHANGED batch_pushes_failed
          /\ SameConstellationFailedBefore =>
                /\ branch_index > 1
                /\ \E earlier \in 1..(branch_index - 1) :
                      /\ names[earlier] \in DOMAIN failed_pushes
                      /\ failed_pushes[names[earlier]].commit = Memoized
                /\ last_step'.kind = "memo"
                /\ Failed(last_step'.rc)
                /\ UNCHANGED push_calls
                /\ pc' = "returned"]_vars

C27_Witness ==
    /\ pc = "returned"
    /\ branch_index = 2
    /\ last_step.kind = "memo"
    /\ last_step.batch = 4
    /\ push_calls = 2
    /\ names[1] \in DOMAIN failed_pushes
    /\ failed_pushes[names[2]].commit = failed_pushes[names[1]].commit
    /\ Cardinality(DOMAIN batch_pushes_failed) = 3

\* ------------------------------------------------- the commits of a push
\* The chain of first parents: the tip of the branch and the commit a number
\* of first parents before a commit.
BranchTip == HistoryLength

FirstParent(commit) == commit - 1

RECURSIVE Ancestor(_, _)
Ancestor(commit, generations) ==
    IF generations = 0 THEN commit
    ELSE Ancestor(FirstParent(commit), generations - 1)

\* The oldest commit of the branch that has not been pushed.
OldestMissing == Ancestor(BranchTip, number_to_push - pushed_commits - 1)

\* C28: every push of the batch loop is a push of the commit that is
\* last_offset - batch size first parents before the tip of the branch; a
\* push that succeeds starts at the oldest commit not pushed yet and lowers
\* the offset, so the batches follow each other from the oldest commit on;
\* a branch that ends successful ends with a push of its tip.
C28_PushesOldestFirst ==
    /\ [][/\ (PassDone /\ last_step'.kind = "push") =>
                /\ last_step'.offset = last_offset
                /\ last_step'.offset - last_step'.batch >= 0
                /\ last_step'.commit =
                      Ancestor(BranchTip, last_step'.offset - last_step'.batch)
          /\ PushSucceeds =>
                /\ Ancestor(last_step'.commit, last_step'.batch - 1)
                      = OldestMissing
                /\ last_offset' = last_step'.offset - last_step'.batch
                /\ last_offset' < last_offset
                /\ last_offset' > 0 => OldestMissing' = last_step'.commit + 1]_vars
    /\ []((pc = "returned" /\ number_to_push > 0
              /\ CurrentBranch \in Range(successful_pushes))
            => /\ last_step.kind = "push"
               /\ ~Failed(last_step.rc)
               /\ last_step.offset - last_step.batch = 0
               /\ last_step.commit = BranchTip)

C28_Witness ==
    /\ pc = "returned"
    /\ CurrentBranch \in Range(successful_pushes)
    /\ number_to_push = 6
    /\ push_calls = 5
    /\ step_fails = 2
    /\ last_step.commit = BranchTip
    /\ last_step.batch = 3

\* ----------------------------------------------------- loop invariants
\* C29: in the batch loop pushed_commits + last_offset = number_to_push; the
\* batch size a pass resolves the tip commit and pushes with is at least 1
\* and at most maximum_batch_size and last_offset, so the offset asked for
\* is in 0..number_to_push-1 and get_commit_id_before_head does not raise;
\* the loop ends with pushed_commits = number_to_push and the error about
\* the number of pushed commits is never logged.
C29_LoopInvariants ==
    /\ InLoop =>
          /\ pushed_commits + last_offset = number_to_push
          /\ batch_size >= 1
          /\ last_offset >= 0
    /\ AtPass =>
          /\ 1 <= Constellation[1]
          /\ Constellation[1] <= Min(maximum_batch_size, last_offset)
          /\ last_offset - Constellation[1] \in 0..(number_to_push - 1)
          /\ Constellation[2] # NoCommit
    /\ last_step.kind # "none" =>
          /\ 1 <= last_step.batch
          /\ last_step.batch <= Min(maximum_batch_size, last_step.offset)
          /\ last_step.offset - last_step.batch \in 0..(number_to_push - 1)
          /\ last_step.pushed + last_step.offset = number_to_push
          /\ last_step.commit # NoCommit
    /\ (InLoop /\ last_offset = 0) => pushed_commits = number_to_push
    /\ (pc = "returned" /\ CurrentBranch \in Range(successful_pushes))
          => pushed_commits = number_to_push
    /\ ~count_error_logged

C29_Witness ==
    /\ InLoop
    /\ last_offset = 0
    /\ number_to_push = 5
    /\ maximum_batch_size = 4
    /\ step_fails = 3
    /\ last_step.batch = 1
    /\ last_step.offset = 1
    /\ batch_size = 1

\* ------------------------------------------------- the recorded failure
RecordedCause == failed_pushes[CurrentBranch]

RemainingRecorded ==
    /\ RecordedCause'.remaining = number_to_push - pushed_commits
    /\ RecordedCause'.remaining > 0
    /\ RecordedCause'.commit \in Range(failed_commits')

\* C30 as stated: whenever the batch loop records a branch failed, the
\* batch size is 1, the commit of the recorded cause is the oldest commit of
\* the branch not pushed yet, and the recorded number of remaining commits
\* is number_to_push - pushed_commits and more than 0.
C30_FailsAtOldestMissing ==
    [][TerminalFailure =>
          /\ RemainingRecorded
          /\ batch_size' = 1
          /\ RecordedCause'.commit = OldestMissing]_vars

\* C30, amended: whenever the batch loop records a branch failed, the
\* recorded number of remaining commits is number_to_push - pushed_commits
\* and more than 0, the batch size is 1 and the commit of the cause is in
\* failed_commits; after
\* a push of one commit that failed the commit is the tip of that push, the
\* oldest commit of the branch not pushed yet; after a constellation found
\* in batch_pushes_failed it is the commit memoized for the constellation,
\* which is not older than the oldest commit not pushed yet and can be a
\* newer one.
C30_FailsAtBlockedOrMemoizedCommit ==
    [][TerminalFailure =>
          /\ RemainingRecorded
          /\ batch_size' = 1
          /\ last_step'.kind = "push" =>
                /\ last_step'.batch = 1
                /\ RecordedCause'.commit = last_step'.commit
                /\ RecordedCause'.commit = OldestMissing
          /\ last_step'.kind = "memo" =>
                /\ last_step'.batch > 1
                /\ RecordedCause'.commit = Memoized
                /\ RecordedCause'.commit >= OldestMissing]_vars

C30_Witness ==
    /\ pc = "returned"
    /\ last_step.kind = "memo"
    /\ CurrentBranch \in DOMAIN failed_pushes
    /\ RecordedCause.commit > OldestMissing
    /\ RecordedCause.remaining = 3
    /\ pushed_commits = 1

C30_WitnessPush ==
    /\ pc = "returned"
    /\ last_step.kind = "push"
    /\ CurrentBranch \in DOMAIN failed_pushes
    /\ RecordedCause.commit = OldestMissing
    /\ RecordedCause.remaining = 3
    /\ pushed_commits = 1

\* --------------------------------------------------------- return codes
\* C31: with a maximum batch size, push_single_branch returns a code other
\* than 0 exactly when it has recorded the branch failed and 0 exactly when
\* it has recorded it successful; without --fail-fast push_branches returns
\* a code other than 0 exactly when a branch is recorded failed.
C31_ReturncodesAgreeWithOutcomes ==
    /\ pc = "returned" =>
          /\ push_returncode # 0 <=> CurrentBranch \in DOMAIN failed_pushes
          /\ push_returncode = 0 <=> CurrentBranch \in Range(successful_pushes)
    /\ (pc = "done" /\ maximum_batch_size # 0 /\ ~fail_fast) =>
          (branch_result # 0 <=> failed_pushes # EmptyDict)

\* What does hold of push_branches: a code other than 0 is returned only
\* when a branch is recorded failed.
NonZeroOnlyAfterFailure ==
    (pc = "done" /\ maximum_batch_size # 0 /\ branch_result # 0)
        => failed_pushes # EmptyDict

FailFastStopped ==
    maximum_batch_size # 0 /\ fail_fast /\ failed_pushes # EmptyDict

RemainingSkipped(reason) ==
    /\ DOMAIN skipped_pushes =
          {name \in Range(names) : /\ name \notin Range(successful_pushes)
                                   /\ name \notin DOMAIN failed_pushes}
    /\ \A name \in DOMAIN skipped_pushes : skipped_pushes[name] = reason

\* C32: with --fail-fast and a maximum batch size, once a branch has failed
\* push_single_branch is called for no later branch (the only checkout left
\* is run's return to the original branch), the branches neither successful
\* nor failed are skipped with the reason 'previous_errors', the successful
\* and the failed entries stay as they are, no tag is pushed, and the script
\* exits with a status other than 0.
C32_FailFastStops ==
    /\ [](FailFastStopped =>
            /\ pc \in {"returned", "done", "exited"}
            /\ attempted = SubSeq(names, 1, branch_index)
            /\ DOMAIN failed_pushes = {names[branch_index]}
            /\ tags_successful_pushes = <<>>
            /\ tags_failed_pushes = EmptyDict
            /\ tag_index = 1
            /\ pc # "returned" => RemainingSkipped("previous_errors")
            /\ pc = "exited" => exit_status # 0)
    /\ [][FailFastStopped =>
            /\ successful_pushes' = successful_pushes
            /\ failed_pushes' = failed_pushes
            /\ attempted' = attempted
            /\ checked_out' \in {checked_out, original_branch}
            /\ pc = "returned" => pc' = "done"
            /\ pc = "done" => pc' = "exited" /\ exit_status' # 0]_vars

\* (a run of three branches: one pushed, one failed, one skipped)
C32_Witness ==
    /\ FailFastStopped
    /\ pc = "exited"
    /\ successful_pushes # <<>>
    /\ skipped_pushes # EmptyDict
    /\ exit_message = "Run this script again without the --fail-fast option"

TagsPushed == SubSeq(tags_names, 1, tag_index - 1)

\* The return codes of the tag pushes so far, as the containers record them.
TagReturncodesSeen ==
    {tags_failed_pushes[tag].returncode : tag \in DOMAIN tags_failed_pushes}
        \cup (IF tags_successful_pushes = <<>> THEN {} ELSE {RETURNCODE_OK})

Highest(codes) == CHOOSE code \in codes : \A other \in codes : other <= code

TagsEachPushedOnce ==
    maximum_batch_size # 0 =>
        /\ tag_index \in 1..(Len(tags_names) + 1)
        /\ Range(TagsPushed) =
              Range(tags_successful_pushes) \cup DOMAIN tags_failed_pushes
        /\ Range(tags_successful_pushes) \cap DOMAIN tags_failed_pushes = {}
        /\ NoDuplicates(tags_successful_pushes)
        /\ \A i, j \in DOMAIN tags_successful_pushes :
              i < j => IndexOf(tags_names, tags_successful_pushes[i])
                          < IndexOf(tags_names, tags_successful_pushes[j])
        /\ tags_skipped_pushes = EmptyDict
        /\ pc \in {"output", "finished"} => tag_index = Len(tags_names) + 1

TagPushRecorded ==
    (maximum_batch_size # 0 /\ tag_index' # tag_index) =>
        LET current_tag == tags_names[tag_index]
        IN  /\ tag_index' = tag_index + 1
            /\ \/ /\ tags_successful_pushes' =
                        Append(tags_successful_pushes, current_tag)
                  /\ tags_failed_pushes' = tags_failed_pushes
               \/ /\ tags_successful_pushes' = tags_successful_pushes
                  /\ DOMAIN tags_failed_pushes' =
                        DOMAIN tags_failed_pushes \cup {current_tag}
                  /\ tags_failed_pushes'[current_tag].returncode # 0
                  /\ \A tag \in DOMAIN tags_failed_pushes :
                        tags_failed_pushes'[tag] = tags_failed_pushes[tag]

\* C33: with a maximum batch size push_tags pushes every tag once, in the
\* order of the list and whatever became of the tags before it, each tag
\* ends in successful_pushes or in failed_pushes as its own push ended, and
\* push_tags returns the highest return code seen, which is other than 0
\* exactly when a tag has failed.
C33_TagsPushedOnceEach ==
    /\ [](/\ TagsEachPushedOnce
          /\ (maximum_batch_size # 0 /\ pc \in {"output", "finished"}) =>
                /\ tags_result = Highest(TagReturncodesSeen)
                /\ tags_result # 0 <=> tags_failed_pushes # EmptyDict)
    /\ [][TagPushRecorded]_vars

TagsPushedAndRecorded == []TagsEachPushedOnce /\ [][TagPushRecorded]_vars

\* Every tag is recorded failed, with the given cause.
AllTagsFailedWith(cause) ==
    /\ tags_failed_pushes = [tag \in Range(tags_names) |-> cause]
    /\ tags_successful_pushes = <<>>
    /\ tags_skipped_pushes = EmptyDict

\* C34: after set_all_failed the container holds exactly its names in
\* failed_pushes, each with the cause given, and nothing in
\* successful_pushes and skipped_pushes, whatever it held before; after
\* set_all_successful successful_pushes is the list of names and the other
\* two are empty; so without a maximum batch size all branches, and all
\* tags, have the outcome of their one push.
C34_SetAllOverwrites ==
    /\ container_call.method = "set_all_failed" =>
          /\ failed_pushes =
                [name \in Range(names) |-> container_call.argument]
          /\ successful_pushes = <<>>
          /\ skipped_pushes = EmptyDict
    /\ container_call.method = "set_all_successful" =>
          /\ successful_pushes = names
          /\ failed_pushes = EmptyDict
          /\ skipped_pushes = EmptyDict
    /\ (maximum_batch_size = 0 /\ AfterBranches) =>
          IF branch_result # 0
          THEN AllFailedWith("global push failed")
          ELSE /\ successful_pushes = names
               /\ failed_pushes = EmptyDict
               /\ skipped_pushes = EmptyDict
    /\ (maximum_batch_size = 0 /\ pc \in {"output", "finished"}) =>
          IF tags_result # 0
          THEN AllTagsFailedWith(NO_CAUSE)
          ELSE /\ tags_successful_pushes = tags_names
               /\ tags_failed_pushes = EmptyDict
               /\ tags_skipped_pushes = EmptyDict

\* (set_all_failed on a container that held a name of each kind)
C34_Witness ==
    /\ container_call.method = "set_all_failed"
    /\ container_call.successful # <<>>
    /\ container_call.failed # EmptyDict
    /\ container_call.skipped # EmptyDict
    /\ AllFailedWith(container_call.argument)

\* (set_all_successful on a container that held a failed name)
C34_WitnessSuccessful ==
    /\ container_call.method = "set_all_successful"
    /\ container_call.failed # EmptyDict
    /\ container_call.skipped # EmptyDict
    /\ successful_pushes = names

\* (the tags of a run without a maximum batch size whose push failed)
C34_WitnessTags ==
    /\ maximum_batch_size = 0
    /\ pc = "finished"
    /\ successful_pushes = names
    /\ AllTagsFailedWith(NO_CAUSE)

\* ------------------------------------------------------ the polling loop
Drained(s) == ~is_alive(s) /\ queue_empty(s)

BothClosed == \A s \in Streams : pipe_closed[s]

Interrupted == mon_pc[1] = "interrupted"

\* The loop is left by its condition only with both readers drained, and
\* they stay drained.
ExitsOnlyWhenDrained ==
    /\ [](LoopLeft => \A s \in Streams : Drained(s))
    /\ [][(InPollingLoop /\ ~(\A s \in Streams : Drained(s)))
            => (InPollingLoop' \/ Interrupted')]_vars

\* C35 as stated: the loop goes on while a reader is not drained and is left
\* only with both readers drained; with fair scheduling of the threads and
\* a child that closes both streams the loop is left and the function
\* returns (unless an exception in the main thread ends the call first).
C35_LoopExitsAndReturns ==
    /\ ExitsOnlyWhenDrained
    /\ BothClosed ~> (Returned \/ Interrupted)

\* C35, amended: a child that closes both streams makes the loop end, the
\* threads be joined and the handles be closed; the function returns, or
\* raises in strict mode, when the child has ended as well, for which it
\* waits.
C35_LoopExitsAndWaits ==
    /\ ExitsOnlyWhenDrained
    /\ BothClosed ~> (mon_pc[1] = "wait" \/ Returned \/ Interrupted)
    /\ child_exited ~> (Returned \/ Interrupted)
    /\ [](Returned => child_exited)

\* (the function has returned after both streams carried all their lines)
C35_Witness ==
    /\ mon_pc[1] = "returned"
    /\ \A s \in Streams : Drained(s) /\ Len(collected[s]) = MaxLines
    /\ eof_true_calls["stdout"] = 2

\* (the loop is over, the handles are closed, the child goes on running)
C35_WitnessWaiting ==
    /\ mon_pc[1] = "wait"
    /\ BothClosed
    /\ ~child_exited

\* --------------------------------------------------------- the clean-up
Joined(s) ==
    \/ mon_pc[1] \in {"close", "wait", "returned", "raised"}
    \/ (mon_pc = <<"join", "stderr">> /\ s = "stdout")

\* C36: the CompletedProcess is made, and the error of strict mode raised,
\* only after the loop has ended, both threads have been joined, both
\* handles have been closed and the child has been waited for, in this
\* order; and a reader reads nothing from a pipe whose handle is closed.
C36_ResultAfterCleanup ==
    /\ [](/\ Returned =>
                /\ \A s \in Streams : /\ Drained(s)
                                       /\ Joined(s)
                                       /\ handle_closed[s]
                /\ child_exited
                /\ completed_process.returncode = child_returncode
          /\ ~Returned => completed_process = NoProcess
          /\ \A s \in Streams :
                /\ Joined(s) => ~is_alive(s)
                /\ handle_closed[s] =>
                      /\ LoopLeft
                      /\ \A t \in Streams : Joined(t)
                      /\ pipe[s] = <<>> /\ pipe_closed[s]
          /\ mon_pc[1] = "wait" => \A s \in Streams : handle_closed[s])
    /\ [][\A s \in Streams :
            handle_closed[s] =>
                /\ reader_pc'[s] = reader_pc[s]
                /\ reader_line'[s] = reader_line[s]
                /\ queue'[s] = queue[s]
                /\ pipe'[s] = pipe[s]
                /\ handle_closed'[s]]_vars

\* (strict mode has raised, after all the lines of both streams)
C36_Witness ==
    /\ mon_pc[1] = "raised"
    /\ completed_process.returncode = 2
    /\ \A s \in Streams : handle_closed[s] /\ Len(collected[s]) = MaxLines

\* ------------------------------------------------------------ readlines
\* C37: readlines never makes its one consumer wait: queue.get() is called
\* only on a queue that holds a line, a call on an empty queue yields
\* nothing, the lines come in the order they were put, and no line is
\* yielded twice, in one call or in a later one.
C37_ReadlinesNeverBlocks ==
    /\ [](\A s \in Streams :
            /\ mon_pc = <<"get", s>> => queue[s] # <<>>
            /\ IsPrefix(collected[s] \o queue[s], Written(s))
            /\ NoDuplicates(collected[s] \o queue[s]))
    /\ [][\A s \in Streams :
            /\ (mon_pc = <<"readlines", s>> /\ queue[s] = <<>>
                    /\ mon_pc' # mon_pc)
                  => (collected' = collected /\ mon_pc'[1] \notin {"get"})
            /\ collected'[s] # collected[s] =>
                  /\ mon_pc = <<"get", s>>
                  /\ collected'[s] = Append(collected[s], Head(queue[s]))
                  /\ queue'[s] = Tail(queue[s])
            /\ (mon_pc # <<"get", s>> /\ queue'[s] # queue[s]) =>
                  (queue[s] # <<>> => Head(queue'[s]) = Head(queue[s]))]_vars

\* (a second line is about to be yielded, the reader having ended)
C37_Witness ==
    /\ mon_pc = <<"get", "stdout">>
    /\ Len(collected["stdout"]) = 1
    /\ Len(queue["stdout"]) = 1
    /\ eof_result["stdout"] = "False"
    /\ ~is_alive("stdout")

\* ------------------------------------------------------------ _fix_tags
FixTagsEnded == mig_pc \in {"returned", "exited"} /\ saved_originals # EmptyDict

C38_WitnessReturned ==
    /\ mig_pc = "returned"
    /\ tags = Range(TagBranches)
    /\ commit_data = CommitDataOf["svn/tags/v2"]
    /\ ENV_GIT_COMMITTER_DATE \in DOMAIN ENV
    /\ git_config = EmptyDict

\* ----------------------------------------------------- _get_rebasebranch
RemoteMatches ==
    {branch \in called_with.remote_branches : Contains(rebasebranch, branch)}

RebasebranchCalled == called_with.local_branches # {} \/ rebasebranch # <<>>

\* C39: _get_rebasebranch ends the script with an error where no local
\* branch has the name asked for, where no remote branch matches it, and
\* where more than two remote branches match it; otherwise it leaves that
\* one branch in local_branches, the matching branches in remote_branches,
\* and no tags.
C39_RebasebranchOrAbort ==
    /\ [](mig_pc = "fix_branches" =>
            /\ rebasebranch \in called_with.local_branches
            /\ local_branches = {rebasebranch}
            /\ remote_branches = RemoteMatches
            /\ Cardinality(remote_branches) \in {1, 2}
            /\ tags = {}
            /\ mig_error = "")
    /\ [][mig_pc = "get_rebasebranch" =>
            /\ mig_pc' \in {"fix_branches", "exited"}
            /\ mig_pc' = "exited" <=>
                  \/ rebasebranch \notin local_branches
                  \/ RemoteMatches = {}
                  \/ Cardinality(RemoteMatches) > 2
            /\ mig_pc' = "exited" =>
                  /\ mig_error' # ""
                  /\ UNCHANGED <<local_branches, remote_branches, tags, ENV,
                                 git_config>>]_vars

\* (one branch of three, its two remote branches of three, the tags dropped)
C39_Witness ==
    /\ mig_pc = "fix_branches"
    /\ called_with.local_branches = LocalBranchNames
    /\ Cardinality(called_with.remote_branches) = 3
    /\ called_with.tags # {}
    /\ Cardinality(remote_branches) = 2
    /\ tags = {}

\* (three remote branches hold the name: the script has ended)
C39_WitnessTooMany ==
    /\ mig_pc = "exited"
    /\ mig_error = "Too many matching remote branches found: %s."
    /\ rebasebranch = Dev

\* --------------------------------------------------- _examine_log_chunks
Revisions(range) == range[1]..range[2]

Examined == UNION {Revisions(range) : range \in requested}

ExamineEnded == exam_pc \in {"returned", "raised"}

\* The ranges asked for so far follow one another from revision 1 on, none
\* longer than the chunk size, and at the return they end at the head.
RangesState ==
    /\ \A range \in requested :
          /\ 1 <= range[1]
          /\ range[1] <= range[2]
          /\ range[2] <= head_revision
          /\ range[2] - range[1] + 1 <= chunk_size
    /\ \A first, second \in requested :
          first # second => Revisions(first) \cap Revisions(second) = {}
    /\ \E last \in 0..head_revision : Examined = 1..last
    /\ exam_pc = "returned" => Examined = 1..head_revision

RangesAction ==
    requested' # requested =>
        \E last \in 0..head_revision :
            /\ Examined = 1..last
            /\ \E end \in (last + 1)..head_revision :
                  requested' = requested \cup {<<last + 1, end>>}

RangesInSequence == []RangesState /\ [][RangesAction]_vars

\* C40: for every head revision from 0 on and every chunk size the command
\* line accepts _examine_log_chunks ends, and the ranges it asks svn for
\* follow one another without gap or overlap, in ascending order, hold at
\* most chunk_size revisions each and together are the revisions 1 to
\* head_revision.
C40_ChunksCoverAndTerminate ==
    /\ RangesInSequence
    /\ <>ExamineEnded

\* (the same, for the chunk sizes from 1 on)
ChunksOfOneOrMore ==
    /\ [](chunk_size >= 1 => RangesState)
    /\ [][chunk_size >= 1 => RangesAction]_vars
    /\ chunk_size >= 1 => <>ExamineEnded

\* (all revisions of the head examined in chunks, the last one shorter)
ChunksOfOneOrMoreWitness ==
    /\ exam_pc = "returned"
    /\ head_revision = 5
    /\ chunk_size = 2
    /\ requested = {<<1, 2>>, <<3, 4>>, <<5, 5>>}

\* (the loop alone, whatever the ranges are)
ExamineTerminates == <>ExamineEnded

====
